---------------------------- MODULE Spec2Model ----------------------------
(***************************************************************************)
(* A model of the engine classifier of webgl-mcp                           *)
(* (src/src/analyzers/engine-detector.ts): the signature matchers, the     *)
(* confidence scorer, the selection loop of detectEngine, the per-engine   *)
(* analyze routines and detectFeatures, run against small documents in     *)
(* several host environments.                                              *)
(*                                                                         *)
(* Strings are sequences of tokens; String.prototype.includes is           *)
(* contiguous containment of token sequences.  The tokens are cut so that  *)
(* the containments between the registry's patterns ('tic' in 'tic80',     *)
(* 'construct' in 'construct-canvas') are kept.                            *)
(***************************************************************************)
EXTENDS Integers, Sequences, FiniteSets, TLC

VARIABLES
    doc,                \* the document: a sequence of elements, in document order
    env,                \* the host: globals, the contexts a canvas can hand out
    engines,            \* EngineDetector.engines
    ctx,                \* per element: the context kind its canvas has handed out
    pc,                 \* detectEngine: "idle", "score", "analyze", "return", "done", "rejected"
    i,                  \* detectEngine: index of the engine of the current iteration
    confidence,         \* detectEngine: the score of engine i, [m, t] for m / t
    bestMatch,          \* detectEngine: <<>> for null, <<result>> otherwise
    highestConfidence,  \* detectEngine: [m, t]
    result,             \* what the call returned: <<>> for null, <<result>>
    scores,             \* the confidences the current call computed, in order
    trace,              \* what the current call did, in order
    previous,           \* how the call before the current one ended: <<>> or <<outcome>>
    gl,                 \* WebGLDisplayAnalyzer: the rendering context it is given
    fmt,                \* getSupportedColorFormats: its position, its calls, its formats
    other,              \* a second detectEngine call on the detector: its snapshot and locals
    manager             \* WebGLContextManager: its contexts, the canvases, its calls

vars == <<doc, env, engines, ctx, pc, i, confidence, bestMatch,
          highestConfidence, result, scores, trace, previous, gl, fmt, other,
          manager>>

\* The state of the engine detector and of the display analyzer.
detectorVars == <<doc, env, engines, ctx, pc, i, confidence, bestMatch,
                  highestConfidence, result, scores, trace, previous>>

displayVars == <<gl, fmt>>

\* The state beside the call of detectEngine that the trace follows.
besideVars == <<other, manager>>

-----------------------------------------------------------------------------
(* Bounds *)

MaxElems == 2

\* The textures left alive after which getSupportedColorFormats is no longer
\* called.
MaxLeaked == 2

\* The createContext and removeContext calls made on one manager.
MaxCalls == 3

-----------------------------------------------------------------------------
(* Strings and numbers *)

\* String.prototype.includes
Includes(s, p) ==
    \E k \in 0..(Len(s) - Len(p)) : SubSeq(s, k + 1, k + Len(p)) = p

Opt(cond, s) == IF cond THEN <<s>> ELSE <<>>

RECURSIVE Concat(_)
Concat(ss) == IF ss = <<>> THEN <<>> ELSE Head(ss) \o Concat(Tail(ss))

\* A JavaScript number m / t: t = 0 only for 0 / 0, which is NaN.
Num(m, t) == [m |-> m, t |-> t]

IsNaN(a) == a.t = 0

\* a > b on numbers; every comparison with NaN is false.
Gt(a, b) == ~IsNaN(a) /\ ~IsNaN(b) /\ a.m * b.t > b.m * a.t

Ge(a, b) == ~IsNaN(a) /\ ~IsNaN(b) /\ a.m * b.t >= b.m * a.t

NumEq(a, b) == ~IsNaN(a) /\ ~IsNaN(b) /\ a.m * b.t = b.m * a.t

-----------------------------------------------------------------------------
(* The document (a DOM Document) and the host environment *)

\* An element.  pre is the context the page itself had requested from a canvas
\* before the inspection ("none" when it had requested none).
El(tag, id, cls, width, height, style, attrs, text, src, pre) ==
    [tag |-> tag, id |-> id, cls |-> cls, width |-> width, height |-> height,
     style |-> style, attrs |-> attrs, text |-> text, src |-> src, pre |-> pre]

CanvasEl(id, cls, width, height, style, pre) ==
    El("canvas", id, cls, width, height, style, <<>>, <<>>, <<>>, pre)

ScriptEl(text, src) == El("script", <<>>, <<>>, 0, 0, <<>>, <<>>, text, src, "none")

DivEl(id, cls, attrs) == El("div", id, cls, 0, 0, <<>>, attrs, <<>>, <<>>, "none")

Attr(n, v) == [n |-> n, v |-> v]

\* The elements the documents are built from.
ElemKinds ==
    { CanvasEl(<<"unity-canvas">>, <<>>, 300, 150, <<>>, "none"),
      CanvasEl(<<>>, <<>>, 512, 512, <<"image-rendering", ": pixelated">>, "none"),
      CanvasEl(<<"gameCanvas">>, <<>>, 128, 128, <<>>, "2d"),
      CanvasEl(<<"defaultCanvas", "0">>, <<"p5Canvas">>, 240, 136, <<>>, "webgl2"),
      CanvasEl(<<"godot", "-canvas">>, <<>>, 300, 150, <<>>, "webgl"),
      ScriptEl(<<"UnityLoader", ".instantiate(">>, <<>>),
      ScriptEl(<<"new ", "construct", "or(">>, <<"godot", ".js">>),
      ScriptEl(<<"Snowman", " sta", "tic", "80">>, <<>>),
      ScriptEl(<<"_pico8_", " ", "levelString">>, <<"p5", ".", "min.js">>),
      DivEl(<<"unity-fullscreen-button">>, <<>>, <<>>),
      DivEl(<<>>, <<"passage", " ", "dark">>, <<Attr(<<"role">>, <<"main">>),
                                   Attr(<<"ontouchstart">>, <<>>)>>),
      DivEl(<<"gameCanvas">>, <<"gameContainer">>,
            <<Attr(<<"data-", "tw-", "story">>, <<>>)>>) }

RECURSIVE SeqsUpTo(_, _)
SeqsUpTo(S, n) ==
    IF n = 0 THEN { <<>> }
    ELSE LET shorter == SeqsUpTo(S, n - 1)
         IN  shorter \cup { Append(s, x) : s \in shorter, x \in S }

Documents == SeqsUpTo(ElemKinds, MaxElems)

\* The host.  window: the globals window and crossOriginIsolated exist (a
\* browser; under Node with jsdom they do not).  gl2class: the global
\* WebGL2RenderingContext exists.  gl: the WebGL versions a fresh canvas can
\* hand out.  exts1, exts2: the extensions a version-1 and a version-2 context
\* report.  unityInstance: <<>> when window.unityInstance is undefined, else
\* <<memory>>, memory being whether Module.asmLibraryArg.memory is set.
\* runtime: <<>> when neither cr_getC2Runtime nor cr_getC3Runtime yields a
\* runtime, else <<the runtime>>.
NodeJsdom ==
    [window |-> FALSE, gl2class |-> FALSE, gl |-> "none", canvas2d |-> FALSE,
     exts1 |-> {}, exts2 |-> {}, maxTextureSize |-> 0, maxViewportDims |-> <<0, 0>>,
     crossOriginIsolated |-> FALSE, unityInstance |-> <<>>, runtime |-> <<>>,
     Worker |-> FALSE]

LegacyBrowser ==
    [window |-> TRUE, gl2class |-> FALSE, gl |-> "gl1", canvas2d |-> TRUE,
     exts1 |-> {"OES_texture_float"}, exts2 |-> {}, maxTextureSize |-> 2048,
     maxViewportDims |-> <<2048, 2048>>,
     crossOriginIsolated |-> FALSE, unityInstance |-> <<>>, runtime |-> <<>>,
     Worker |-> TRUE]

MobileBrowser ==
    [window |-> TRUE, gl2class |-> TRUE, gl |-> "gl1", canvas2d |-> TRUE,
     exts1 |-> {"ANGLE_instanced_arrays", "WEBKIT_EXT_texture_filter_anisotropic"},
     exts2 |-> {}, maxTextureSize |-> 4096, maxViewportDims |-> <<4096, 4096>>,
     crossOriginIsolated |-> FALSE, unityInstance |-> <<FALSE>>,
     runtime |-> <<[uses_loader_layout |-> FALSE, isInWorker |-> FALSE]>>,
     Worker |-> TRUE]

DesktopBrowser ==
    [window |-> TRUE, gl2class |-> TRUE, gl |-> "gl12", canvas2d |-> TRUE,
     exts1 |-> {"OES_texture_float", "ANGLE_instanced_arrays",
                "EXT_texture_filter_anisotropic"},
     exts2 |-> {"EXT_texture_filter_anisotropic", "WEBGL_multi_draw_indirect"},
     maxTextureSize |-> 16384, maxViewportDims |-> <<32768, 32768>>,
     crossOriginIsolated |-> TRUE, unityInstance |-> <<TRUE>>,
     runtime |-> <<[uses_loader_layout |-> TRUE, isInWorker |-> TRUE]>>,
     Worker |-> TRUE]

BareBrowser ==
    [window |-> TRUE, gl2class |-> TRUE, gl |-> "gl12", canvas2d |-> TRUE,
     exts1 |-> {}, exts2 |-> {}, maxTextureSize |-> 4096,
     maxViewportDims |-> <<4096, 4096>>,
     crossOriginIsolated |-> FALSE, unityInstance |-> <<>>, runtime |-> <<>>,
     Worker |-> TRUE]

Environments ==
    { NodeJsdom, LegacyBrowser, MobileBrowser, DesktopBrowser, BareBrowser }

\* HTMLScriptElement.src: the attribute resolved against the document's URL.
BaseURL == <<"https://host/">>

ScriptSrc(e) == IF e.src = <<>> THEN <<>> ELSE BaseURL \o e.src

\* The serialization of one attribute and of one element.
AttrHTML(n, v) == <<" ">> \o n \o <<"=\"">> \o v \o <<"\"">>

ElementHTML(e) ==
    <<"<", e.tag>>
    \o (IF e.id # <<>> THEN AttrHTML(<<"id">>, e.id) ELSE <<>>)
    \o (IF e.cls # <<>> THEN AttrHTML(<<"class">>, e.cls) ELSE <<>>)
    \o (IF e.tag = "canvas"
        THEN AttrHTML(<<"width">>, <<ToString(e.width)>>)
             \o AttrHTML(<<"height">>, <<ToString(e.height)>>)
        ELSE <<>>)
    \o (IF e.style # <<>> THEN AttrHTML(<<"style">>, e.style) ELSE <<>>)
    \o Concat([k \in 1..Len(e.attrs) |-> AttrHTML(e.attrs[k].n, e.attrs[k].v)])
    \o (IF e.src # <<>> THEN AttrHTML(<<"src">>, e.src) ELSE <<>>)
    \o <<">">> \o e.text \o <<"</", e.tag, ">">>

\* document.documentElement.innerHTML
InnerHTML(d) ==
    <<"<head></head><body>">>
    \o Concat([k \in 1..Len(d) |-> ElementHTML(d[k])])
    \o <<"</body>">>

\* The least member of a non-empty set of indices, 0 for the empty set.
First(matching) ==
    IF matching = {} THEN 0
    ELSE CHOOSE k \in matching : \A l \in matching : k <= l

\* The attribute n of an element: Absent, or Given(its value).
Attribute(e, n) ==
    CASE n = <<"id">> -> IF e.id # <<>> THEN <<e.id>> ELSE <<>>
      [] n = <<"class">> -> IF e.cls # <<>> THEN <<e.cls>> ELSE <<>>
      [] n = <<"style">> -> IF e.style # <<>> THEN <<e.style>> ELSE <<>>
      [] n = <<"src">> -> IF e.src # <<>> THEN <<e.src>> ELSE <<>>
      [] n = <<"width">> ->
           IF e.tag = "canvas" THEN <<<<ToString(e.width)>>>> ELSE <<>>
      [] n = <<"height">> ->
           IF e.tag = "canvas" THEN <<<<ToString(e.height)>>>> ELSE <<>>
      [] OTHER ->
           IF \E k \in 1..Len(e.attrs) : e.attrs[k].n = n
           THEN <<e.attrs[First({ k \in 1..Len(e.attrs) : e.attrs[k].n = n })].v>>
           ELSE <<>>

\* The classes of a class attribute: its parts between spaces.
ClassList(cls) ==
    { SubSeq(cls, r[1], r[2]) :
        r \in { r \in (1..Len(cls)) \X (1..Len(cls)) :
                  /\ r[1] <= r[2]
                  /\ \A c \in r[1]..r[2] : cls[c] # " "
                  /\ r[1] = 1 \/ cls[r[1] - 1] = " "
                  /\ r[2] = Len(cls) \/ cls[r[2] + 1] = " " } }

\* A compound selector tag#id[n op v]...: tag "" and id <<>> when left out;
\* op is "has" ([n]), "=" ([n="v"]), "*=" ([n*="v"]) or "~=" (.v, for n the
\* class attribute).
Selector(tag, id, conds) == [tag |-> tag, id |-> id, conds |-> conds]

Cond(n, op, v) == [n |-> n, op |-> op, v |-> v]

\* Whether an attribute, a, meets one condition of a selector.
Meets(a, cond) ==
    /\ a # <<>>
    /\ \/ cond.op = "has"
       \/ cond.op = "=" /\ a[1] = cond.v
       \/ cond.op = "*=" /\ Includes(a[1], cond.v)
       \/ cond.op = "~=" /\ cond.v \in ClassList(a[1])

Matches(e, sel) ==
    /\ sel.tag = "" \/ e.tag = sel.tag
    /\ sel.id = <<>> \/ e.id = sel.id
    /\ \A c \in 1..Len(sel.conds) :
           Meets(Attribute(e, sel.conds[c].n), sel.conds[c])

\* document.querySelectorAll(selector): the indices of the matching elements
QuerySelectorAll(d, sel) == { k \in 1..Len(d) : Matches(d[k], sel) }

\* document.querySelector(selector): the first matching element in document
\* order, 0 for null.
QuerySelector(d, sel) == First(QuerySelectorAll(d, sel))

\* 'canvas'
CanvasSel == Selector("canvas", <<>>, <<>>)

\* '#id'
IdSel(id) == Selector("", id, <<>>)

\* '.cls'
ClassSel(cls) == Selector("", <<>>, <<Cond(<<"class">>, "~=", cls)>>)

\* '[n]'
AttrSel(n) == Selector("", <<>>, <<Cond(n, "has", <<>>)>>)

IsCanvas(e) == e.tag = "canvas"

\* Whether a fresh canvas of the host hands out a context of this kind.
Supported(kind) ==
    CASE kind = "webgl" -> env.gl \in {"gl1", "gl12"}
      [] kind = "webgl2" -> env.gl = "gl12"
      [] kind = "2d" -> env.canvas2d
      [] OTHER -> FALSE

\* The context kind a canvas holds after getContext(kind): a canvas hands
\* out one kind of context for its lifetime.
Held(now, kind) == IF now = "none" /\ Supported(kind) THEN kind ELSE now

\* getContext handing a context out only on the first request of a canvas.
GetContextFresh(cx, idx, kind) ==
    [ctx |-> [cx EXCEPT ![idx] = Held(@, kind)],
     got |-> IF cx[idx] = "none" /\ Supported(kind) THEN kind ELSE "null"]

\* HTMLCanvasElement.getContext on the element at idx: the contexts
\* afterwards, and the kind obtained, "null" for null.
GetContext(cx, idx, kind) ==
    [ctx |-> [cx EXCEPT ![idx] = Held(@, kind)],
     got |-> IF Held(cx[idx], kind) = kind THEN kind ELSE "null"]

\* One entry of the trace.
\* caps: for a capability probe that returned, <<the record it returned>>.
Ev(ev, by, eng, idx, kind, ok) ==
    [ev |-> ev, by |-> by, eng |-> eng, idx |-> idx, kind |-> kind, ok |-> ok,
     caps |-> <<>>]

-----------------------------------------------------------------------------
(* The registry: EngineDetector.engines *)

\* An optional field: Absent when the literal leaves it out.
Absent == <<>>

Given(x) == <<x>>

IsGiven(f) == f # <<>>

\* EngineSignature
Sig(type, patterns, size, shaders) ==
    [type |-> type, patterns |-> patterns, size |-> size, shaders |-> shaders]

\* GameEngine; analyze names the routine the literal carries.
Engine(name, signatures, recommendations) ==
    [name |-> name, signatures |-> signatures,
     recommendations |-> recommendations, analyze |-> name]

UnityEngine ==
    Engine("Unity",
        << Sig("script",
               Given(<<<<"UnityLoader">>, <<"UnityProgress">>, <<"buildUrl">>>>),
               Absent, Absent),
           Sig("webgl",
               Given(<<<<"unity-canvas">>, <<"unityContainer">>>>),
               Absent, Absent),
           Sig("html",
               Given(<<<<"unity-fullscreen-button">>, <<"unity-mobile-warning">>>>),
               Absent, Absent) >>,
        << "Enable WebGL 2.0 for better performance and features",
           "Implement texture compression (DXT/ASTC) for faster loading",
           "Use Unity's progressive loading for large assets",
           "Enable memory defragmentation for WebGL builds",
           "Implement WebAssembly builds for better performance",
           "Configure proper mobile touch input handling",
           "Enable GPU instancing for repeated objects",
           "Use occlusion culling for complex scenes",
           "Implement LOD system for detailed models" >>)

GodotEngine ==
    Engine("Godot",
        << Sig("script",
               Given(<<<<"GDJS">>, <<"godot", ".js">>, <<"godot", ".wasm">>>>),
               Absent, Absent),
           Sig("canvas",
               Given(<<<<"godot", "-canvas">>>>),
               Absent, Absent) >>,
        << "Enable GLES3 mode for better WebGL 2.0 support",
           "Use Godot's built-in compression for assets",
           "Enable threading for WebAssembly builds",
           "Implement proper viewport handling for mobile",
           "Use viewport stretch mode \"2d\" for pixel-perfect rendering",
           "Enable HDR when using post-processing effects",
           "Use GPU particles for better performance",
           "Enable texture streaming for large textures",
           "Implement proper batching for 2D sprites" >>)

ConstructEngine ==
    Engine("Construct",
        << Sig("script",
               Given(<<<<"c2runtime">>, <<"c3runtime">>, <<"construct">>>>),
               Absent, Absent),
           Sig("canvas",
               Given(<<<<"construct", "-canvas">>>>),
               Absent, Absent) >>,
        << "Enable WebGL renderer for better performance",
           "Use texture atlases to reduce draw calls",
           "Enable object pooling for particle effects",
           "Implement proper touch controls for mobile",
           "Use compressed textures when available",
           "Enable worker threads for physics calculations",
           "Implement layer effects optimization",
           "Use zone culling for large levels",
           "Enable background loading for assets" >>)

GDevelopEngine ==
    Engine("GDevelop",
        << Sig("script",
               Given(<<<<"gdjs">>, <<"runtimeGame">>, <<"runtimeScene">>>>),
               Absent, Absent),
           Sig("canvas",
               Given(<<<<"game", "-canvas">>>>),
               Absent, Absent) >>,
        << "Enable WebGL renderer in project settings",
           "Use texture packing for sprites",
           "Implement object pooling for particles",
           "Enable multi-threading when available",
           "Use compressed assets for faster loading",
           "Implement proper mobile touch handling" >>)

BitsyEngine ==
    Engine("Bitsy",
        << Sig("canvas",
               Absent,
               Given([width |-> 512, height |-> 512]), Absent),
           Sig("script",
               Given(<<<<"bitsy_title_text">>, <<"bitsyOnLoad">>, <<"exportedGameData">>>>),
               Absent, Absent),
           Sig("html",
               Given(<<<<"bitsy-gamedata">>, <<"gameDataOnLoad">>>>),
               Absent, Absent) >>,
        << "Enable pixel-perfect scaling for best visual quality",
           "Implement touch input support for mobile devices",
           "Verify canvas resolution matches Bitsy's native size (512x512)",
           "Consider adding a loading indicator for game data" >>)

TwineEngine ==
    Engine("Twine",
        << Sig("dom",
               Given(<<<<"passage">>, <<"tw-", "story">>, <<"tw-", "sidebar">>, <<"tw-", "passage">>>>),
               Absent, Absent),
           Sig("script",
               Given(<<<<"SugarCube">>, <<"Harlowe">>, <<"Snowman">>, <<"Story.lookup">>>>),
               Absent, Absent) >>,
        << "Ensure proper text rendering and scaling",
           "Implement accessibility features (ARIA labels, keyboard navigation)",
           "Add save/load functionality",
           "Consider mobile-friendly UI adjustments" >>)

Pico8Engine ==
    Engine("PICO-8",
        << Sig("canvas",
               Absent,
               Given([width |-> 128, height |-> 128]), Absent),
           Sig("script",
               Given(<<<<"_pico8_">>, <<"pico8_gpio">>, <<"pico8_buttons">>>>),
               Absent, Absent),
           Sig("webgl",
               Absent,
               Absent, Given(<<<<"pico8_vert">>, <<"pico8_frag">>>>)) >>,
        << "Implement WebGL with Canvas 2D fallback",
           "Enable pixel-perfect scaling for authentic look",
           "Monitor cartridge size (stay within 32kb limit)",
           "Add touch controls for mobile support" >>)

PuzzleScriptEngine ==
    Engine("PuzzleScript",
        << Sig("canvas",
               Given(<<<<"gameCanvas">>>>),
               Absent, Absent),
           Sig("script",
               Given(<<<<"levelString">>, <<"processInput">>, <<"titleScreen">>>>),
               Absent, Absent),
           Sig("html",
               Given(<<<<"gameWrapper">>, <<"gameContainer">>>>),
               Absent, Absent) >>,
        << "Optimize rule processing for complex puzzles",
           "Implement undo/redo functionality",
           "Add level select capability",
           "Consider mobile touch controls" >>)

Tic80Engine ==
    Engine("TIC-80",
        << Sig("canvas",
               Absent,
               Given([width |-> 240, height |-> 136]), Absent),
           Sig("script",
               Given(<<<<"TIC">>, <<"tic", "80">>, <<"tic">>>>),
               Absent, Absent),
           Sig("webgl",
               Absent,
               Absent, Given(<<<<"tic_vert">>, <<"tic_frag">>>>)) >>,
        << "Verify 240x136 resolution compliance",
           "Implement WebGL with Canvas 2D fallback",
           "Add touch controls for mobile support",
           "Monitor CPU usage for complex games" >>)

P5jsEngine ==
    Engine("p5.js",
        << Sig("script",
               Given(<<<<"p5", ".">>, <<"setup()">>, <<"draw()">>>>),
               Absent, Absent),
           Sig("canvas",
               Given(<<<<"defaultCanvas">>>>),
               Absent, Absent) >>,
        << "Use WebGL mode for 3D or complex 2D graphics",
           "Enable p5.js performance optimizations",
           "Implement proper frame rate management",
           "Use preload() for asset loading",
           "Consider using instance mode for better control" >>)

\* The registry the class is built with.
BuiltinEngines ==
    << UnityEngine,
       GodotEngine,
       ConstructEngine,
       GDevelopEngine,
       BitsyEngine,
       TwineEngine,
       Pico8Engine,
       PuzzleScriptEngine,
       Tic80Engine,
       P5jsEngine >>

-----------------------------------------------------------------------------
(* The signature matchers *)

\* What a call gives back: a value, or an exception thrown (threw).
Ret(ok) == [ok |-> ok, threw |-> FALSE]

Throw == [ok |-> FALSE, threw |-> TRUE]

\* The body of matchCanvas after its null check, canvas being the element.
CanvasMatches(signature, canvas) ==
    IF IsGiven(signature.size) THEN
        Ret(canvas.width = signature.size[1].width
            /\ canvas.height = signature.size[1].height)
    ELSE IF IsGiven(signature.patterns) THEN
        Ret(\E pattern \in 1..Len(signature.patterns[1]) :
                \/ Includes(canvas.id, signature.patterns[1][pattern])
                \/ Includes(canvas.cls, signature.patterns[1][pattern]))
    ELSE Ret(TRUE)

\* matchCanvas without its null check: reading a property of null throws.
matchCanvasUnguarded(signature, d, canvas) ==
    IF canvas = 0 THEN
        IF IsGiven(signature.size) \/ IsGiven(signature.patterns)
        THEN Throw ELSE Ret(TRUE)
    ELSE CanvasMatches(signature, d[canvas])

\* matchCanvas, canvas being what document.querySelector('canvas') gave.
matchCanvasOn(signature, d, canvas) ==
    IF canvas = 0 THEN Ret(FALSE)
    ELSE CanvasMatches(signature, d[canvas])

matchCanvas(signature, d) ==
    matchCanvasOn(signature, d, QuerySelector(d, CanvasSel))

\* The second request of getContext(k1) || getContext(k2), b being its outcome.
SecondRequest(b, idx, k1, k2, by, eng) ==
    [ctx |-> b.ctx, got |-> b.got,
     ev |-> <<Ev("getContext", by, eng, idx, k1, FALSE),
              Ev("getContext", by, eng, idx, k2, b.got # "null")>>]

\* getContext(k1) || getContext(k2), a being the outcome of the first request:
\* the second request is made only when the first yields null.
FirstRequest(a, idx, k1, k2, by, eng) ==
    IF a.got # "null"
    THEN [ctx |-> a.ctx, got |-> a.got,
          ev |-> <<Ev("getContext", by, eng, idx, k1, TRUE)>>]
    ELSE SecondRequest(GetContext(a.ctx, idx, k2), idx, k1, k2, by, eng)

\* canvas.getContext(k1) || canvas.getContext(k2) on the element at idx, made
\* by `by` for engine eng.  ctx: the contexts afterwards; got: the kind
\* obtained or "null"; ev: the requests made.
GetContextOr(cx, idx, k1, k2, by, eng) ==
    FirstRequest(GetContext(cx, idx, k1), idx, k1, k2, by, eng)

\* The order in which matchWebGL asks for the two versions.
matchWebGLFirst == "webgl"

matchWebGLSecond == "webgl2"

\* matchWebGL refusing a signature that carries shaders.
matchWebGLShadersRefused(signature, c) ==
    [ok |-> c.got # "null" /\ ~IsGiven(signature.shaders), threw |-> FALSE,
     ctx |-> c.ctx, ev |-> c.ev]

\* matchWebGL after its context request, c: true once a context exists,
\* whether or not the signature carries shaders.
matchWebGLWith(signature, c) ==
    [ok |-> c.got # "null", threw |-> FALSE, ctx |-> c.ctx, ev |-> c.ev]

\* matchWebGL without its null check: getContext of null throws.
matchWebGLUnguarded(signature, canvas, cx, eng) ==
    IF canvas = 0 THEN [ok |-> FALSE, threw |-> TRUE, ctx |-> cx, ev |-> <<>>]
    ELSE matchWebGLWith(signature,
             GetContextOr(cx, canvas, matchWebGLFirst, matchWebGLSecond,
                          "matchWebGL", eng))

\* matchWebGL, canvas being what document.querySelector('canvas') gave.
matchWebGLOn(signature, canvas, cx, eng) ==
    IF canvas = 0 THEN [ok |-> FALSE, threw |-> FALSE, ctx |-> cx, ev |-> <<>>]
    ELSE matchWebGLWith(signature,
             GetContextOr(cx, canvas, matchWebGLFirst, matchWebGLSecond,
                          "matchWebGL", eng))

\* matchWebGL: besides its value, the contexts afterwards and the requests made.
matchWebGL(signature, d, cx, eng) ==
    matchWebGLOn(signature, QuerySelector(d, CanvasSel), cx, eng)

\* `.${pattern}` alone
DomSelectorsClassOnly(pattern) == { ClassSel(pattern) }

\* `.${pattern}, #${pattern}, [data-${pattern}]`
DomSelectors(pattern) ==
    { ClassSel(pattern), IdSel(pattern), AttrSel(<<"data-">> \o pattern) }

\* querySelectorAll(`.${pattern}, #${pattern}, [data-${pattern}]`).length > 0
matchDOM(signature, d) ==
    IF ~IsGiven(signature.patterns) THEN Ret(FALSE)
    ELSE Ret(\E pattern \in 1..Len(signature.patterns[1]) :
                 Cardinality(UNION { QuerySelectorAll(d, sel) :
                     sel \in DomSelectors(signature.patterns[1][pattern]) }) > 0)

IsScript(e) == e.tag = "script"

matchScript(signature, d) ==
    IF ~IsGiven(signature.patterns) THEN Ret(FALSE)
    ELSE Ret(\E pattern \in 1..Len(signature.patterns[1]) :
                 \E script \in 1..Len(d) :
                     /\ IsScript(d[script])
                     /\ \/ Includes(d[script].text, signature.patterns[1][pattern])
                        \/ Includes(ScriptSrc(d[script]),
                                    signature.patterns[1][pattern]))

\* matchHTML, html being document.documentElement.innerHTML.
matchHTMLIn(signature, html) ==
    Ret(\E pattern \in 1..Len(signature.patterns[1]) :
            Includes(html, signature.patterns[1][pattern]))

matchHTML(signature, d) ==
    IF ~IsGiven(signature.patterns) THEN Ret(FALSE)
    ELSE matchHTMLIn(signature, InnerHTML(d))

-----------------------------------------------------------------------------
(* The confidence scorer *)

\* A matcher that requests no context leaves the contexts as they are.
Sync(r, cx) == [ok |-> r.ok, threw |-> r.threw, ctx |-> cx, ev |-> <<>>]

\* The switch of calculateConfidence: one signature against the document.
MatchSignature(signature, d, cx, eng) ==
    CASE signature.type = "canvas" -> Sync(matchCanvas(signature, d), cx)
      [] signature.type = "webgl" -> matchWebGL(signature, d, cx, eng)
      [] signature.type = "dom" -> Sync(matchDOM(signature, d), cx)
      [] signature.type = "script" -> Sync(matchScript(signature, d), cx)
      [] signature.type = "html" -> Sync(matchHTML(signature, d), cx)
      [] OTHER -> Sync(Ret(FALSE), cx)

\* What one matching signature adds to matches, with webgl counted twice.
MatchWeightByType(signature) == IF signature.type = "webgl" THEN 2 ELSE 1

\* What one matching signature adds to matches: matches++.
MatchWeight(signature) == 1

\* One iteration of the loop of calculateConfidence, r being what the matcher
\* of signature j gave: total++, and matches++ on a match.
Counted(st, signature, j, eng, r) ==
    [matches |-> st.matches + (IF r.ok THEN MatchWeight(signature) ELSE 0),
     total |-> st.total + 1,
     ctx |-> r.ctx,
     ev |-> st.ev \o r.ev \o <<Ev("sig", signature.type, eng, j, "", r.ok)>>,
     threw |-> r.threw]

\* The loop of calculateConfidence from signature j on.  st: matches, total,
\* the contexts, the trace so far, and whether a matcher threw.
RECURSIVE ConfidenceLoop(_, _, _, _, _)
ConfidenceLoop(signatures, j, d, eng, st) ==
    IF j > Len(signatures) \/ st.threw THEN st
    ELSE ConfidenceLoop(signatures, j + 1, d, eng,
             Counted(st, signatures[j], j, eng,
                     MatchSignature(signatures[j], d, st.ctx, eng)))

\* return matches / total
Quotient(st) ==
    [value |-> Num(st.matches, st.total), ctx |-> st.ctx, ev |-> st.ev,
     threw |-> st.threw]

\* calculateConfidence
calculateConfidence(engine, d, cx, eng) ==
    Quotient(ConfidenceLoop(engine.signatures, 1, d, eng,
                 [matches |-> 0, total |-> 0, ctx |-> cx, ev |-> <<>>,
                  threw |-> FALSE]))

-----------------------------------------------------------------------------
(* The capability prober and the analyze routines of the registry *)

\* The extensions a context of kind got reports.
Extensions(got) == IF got = "webgl2" THEN env.exts2 ELSE env.exts1

\* checkWebGLCapabilities with instancedArrays read off the extension alone.
checkWebGLCapabilitiesByExtension(got) ==
    IF ~env.gl2class THEN [threw |-> TRUE]
    ELSE [threw |-> FALSE,
          webgl2 |-> got = "webgl2",
          floatTextures |-> "OES_texture_float" \in Extensions(got),
          anisotropicFiltering |->
              \/ "EXT_texture_filter_anisotropic" \in Extensions(got)
              \/ "WEBKIT_EXT_texture_filter_anisotropic" \in Extensions(got),
          maxTextureSize |-> env.maxTextureSize,
          maxViewportDims |-> env.maxViewportDims,
          instancedArrays |-> "ANGLE_instanced_arrays" \in Extensions(got),
          multiDrawIndirect |->
              got = "webgl2" /\ "WEBGL_multi_draw_indirect" \in Extensions(got)]

\* checkWebGLCapabilities(gl), gl a context of kind got.  The instanceof test
\* reads the global WebGL2RenderingContext: a ReferenceError where the host
\* has none.
checkWebGLCapabilities(got) ==
    IF ~env.gl2class THEN [threw |-> TRUE]
    ELSE [threw |-> FALSE,
          webgl2 |-> got = "webgl2",
          floatTextures |-> "OES_texture_float" \in Extensions(got),
          anisotropicFiltering |->
              \/ "EXT_texture_filter_anisotropic" \in Extensions(got)
              \/ "WEBKIT_EXT_texture_filter_anisotropic" \in Extensions(got),
          maxTextureSize |-> env.maxTextureSize,
          maxViewportDims |-> env.maxViewportDims,
          instancedArrays |->
              got = "webgl2" \/ "ANGLE_instanced_arrays" \in Extensions(got),
          multiDrawIndirect |->
              got = "webgl2" /\ "WEBGL_multi_draw_indirect" \in Extensions(got)]

\* The entry of the trace for the probe of the context that the request c
\* obtained: none without a context.
Probe(c, capabilities) ==
    IF c.got = "null" THEN <<>>
    ELSE <<[c.ev[Len(c.ev)] EXCEPT
               !.ev = "probe", !.kind = c.got, !.ok = ~capabilities.threw,
               !.caps = IF capabilities.threw THEN <<>> ELSE <<capabilities>>]>>

\* if (context) { capabilities = await this.checkWebGLCapabilities(context) }:
\* no probe, and nothing thrown, without a context.
ProbeIf(got) ==
    IF got = "null" THEN [threw |-> FALSE] ELSE checkWebGLCapabilities(got)

\* What an analyze routine leaves: its warnings, or an exception (threw), the
\* contexts afterwards and the context requests it made.
Analysis(warnings, threw, cx, ev) ==
    [warnings |-> warnings, threw |-> threw, ctx |-> cx, ev |-> ev]

\* canvas.getContext(kind) on the element at idx, made by `by` for engine
\* eng, a being its outcome.
Requested(a, idx, kind, by, eng) ==
    [ctx |-> a.ctx, got |-> a.got,
     ev |-> <<Ev("getContext", by, eng, idx, kind, a.got # "null")>>]

GetContextBy(cx, idx, kind, by, eng) ==
    Requested(GetContext(cx, idx, kind), idx, kind, by, eng)

\* canvas.style.imageRendering, truthy
ImageRendering(e) == Includes(e.style, <<"image-rendering">>)

\* 'meta[name="viewport"]'
ViewportMetaSel ==
    Selector("meta", <<>>, <<Cond(<<"name">>, "=", <<"viewport">>)>>)

\* 'meta[name="viewport"][content*="user-scalable=no"]'
FixedViewportMetaSel ==
    Selector("meta", <<>>, <<Cond(<<"name">>, "=", <<"viewport">>),
                             Cond(<<"content">>, "*=", <<"user-scalable=no">>)>>)

\* Unity: from the capability probe on; c the context request, capabilities
\* what the probe gave.  window is read after the probe.
analyzeUnityProbed(c, capabilities) ==
    IF capabilities.threw \/ ~env.window THEN Analysis(<<>>, TRUE, c.ctx, c.ev \o Probe(c, capabilities))
    ELSE Analysis(
             (IF c.got = "null" THEN <<>>
              ELSE Opt(~capabilities.webgl2,
                       "WebGL 2.0 not available, falling back to WebGL 1.0")
                   \o Opt(~capabilities.instancedArrays,
                          "GPU instancing not supported, performance may be impacted")
                   \o Opt(capabilities.maxTextureSize < 4096,
                          "Limited texture size support, consider texture atlasing"))
             \o Opt(IsGiven(env.unityInstance) /\ ~env.unityInstance[1],
                    "WebAssembly memory management not detected"),
             FALSE, c.ctx, c.ev \o Probe(c, capabilities))

analyzeUnityWith(c) == analyzeUnityProbed(c, ProbeIf(c.got))

\* Unity: canvas is what document.querySelector('#unity-canvas') gave; an
\* element that is no canvas has no getContext (a TypeError).
analyzeUnityOn(d, canvas, cx, eng) ==
    IF canvas = 0 THEN Analysis(<<>>, FALSE, cx, <<>>)
    ELSE IF ~IsCanvas(d[canvas]) THEN Analysis(<<>>, TRUE, cx, <<>>)
    ELSE analyzeUnityWith(GetContextOr(cx, canvas, "webgl2", "webgl", "analyze", eng))

analyzeUnity(d, cx, eng) ==
    analyzeUnityOn(d, QuerySelector(d, IdSel(<<"unity-canvas">>)), cx, eng)

\* Godot: from the capability probe on.  crossOriginIsolated is a global of
\* browsers.
analyzeGodotProbed(d, c, capabilities) ==
    IF capabilities.threw \/ ~env.window THEN Analysis(<<>>, TRUE, c.ctx, c.ev \o Probe(c, capabilities))
    ELSE Analysis(
             (IF c.got = "null" THEN <<>>
              ELSE Opt(~capabilities.webgl2,
                       "WebGL 2.0 not available, GLES3 features will be limited")
                   \o Opt(~capabilities.floatTextures,
                          "Float textures not supported, HDR effects will be limited")
                   \o Opt(capabilities.maxTextureSize < 8192,
                          "Limited texture size, consider enabling texture streaming"))
             \o Opt(QuerySelector(d, ViewportMetaSel) = 0,
                    "Viewport meta tag not found, mobile scaling may be incorrect")
             \o Opt(~env.crossOriginIsolated,
                    "Cross-Origin Isolation not enabled, threading unavailable"),
             FALSE, c.ctx, c.ev \o Probe(c, capabilities))

analyzeGodotWith(d, c) == analyzeGodotProbed(d, c, ProbeIf(c.got))

analyzeGodotOn(d, canvas, cx, eng) ==
    IF canvas = 0 THEN Analysis(<<>>, FALSE, cx, <<>>)
    ELSE IF ~IsCanvas(d[canvas]) THEN Analysis(<<>>, TRUE, cx, <<>>)
    ELSE analyzeGodotWith(d,
             GetContextOr(cx, canvas, "webgl2", "webgl", "analyze", eng))

analyzeGodot(d, cx, eng) ==
    analyzeGodotOn(d, QuerySelector(d, IdSel(<<"godot", "-canvas">>)), cx, eng)

\* Construct: from the capability probe on.
analyzeConstructProbed(c, capabilities) ==
    IF capabilities.threw \/ ~env.window THEN Analysis(<<>>, TRUE, c.ctx, c.ev \o Probe(c, capabilities))
    ELSE Analysis(
             (IF c.got = "null"
              THEN <<"WebGL not available, falling back to Canvas2D">>
              ELSE Opt(~capabilities.instancedArrays,
                       "Instancing not supported, sprite batching will be limited")
                   \o Opt(~capabilities.anisotropicFiltering,
                          "Anisotropic filtering not available, texture quality may be reduced"))
             \o (IF ~IsGiven(env.runtime) THEN <<>>
                 ELSE Opt(~env.runtime[1].uses_loader_layout,
                          "Loading screen not implemented")
                      \o Opt(env.runtime[1].isInWorker /\ ~env.Worker,
                             "Web Workers not supported, physics performance may be impacted")),
             FALSE, c.ctx, c.ev \o Probe(c, capabilities))

analyzeConstructWith(c) == analyzeConstructProbed(c, ProbeIf(c.got))

analyzeConstructOn(canvas, cx, eng) ==
    IF canvas = 0 THEN Analysis(<<>>, FALSE, cx, <<>>)
    ELSE analyzeConstructWith(
             GetContextOr(cx, canvas, "webgl2", "webgl", "analyze", eng))

analyzeConstruct(d, cx, eng) ==
    analyzeConstructOn(QuerySelector(d, CanvasSel), cx, eng)

analyzeGDevelopWith(d, c) ==
    Analysis(
        Opt(c.got = "null", "WebGL not available, performance may be impacted")
        \o Opt(QuerySelector(d, FixedViewportMetaSel) = 0,
               "Mobile viewport not properly configured"),
        FALSE, c.ctx, c.ev)

analyzeGDevelopOn(d, canvas, cx, eng) ==
    IF canvas = 0 THEN Analysis(<<>>, FALSE, cx, <<>>)
    ELSE IF ~IsCanvas(d[canvas]) THEN Analysis(<<>>, TRUE, cx, <<>>)
    ELSE analyzeGDevelopWith(d, GetContextBy(cx, canvas, "webgl", "analyze", eng))

analyzeGDevelop(d, cx, eng) ==
    analyzeGDevelopOn(d, QuerySelector(d, IdSel(<<"game", "-canvas">>)), cx, eng)

analyzeBitsyOn(d, canvas, cx) ==
    IF canvas = 0 THEN Analysis(<<>>, FALSE, cx, <<>>)
    ELSE Analysis(
             Opt(d[canvas].width # 512 \/ d[canvas].height # 512,
                 "Non-standard Bitsy canvas size detected")
             \o Opt(~ImageRendering(d[canvas]),
                    "Pixel-perfect scaling not enabled"),
             FALSE, cx, <<>>)

analyzeBitsy(d, cx, eng) == analyzeBitsyOn(d, QuerySelector(d, CanvasSel), cx)

\* '.passage, .tw-passage'
PassageSelectors ==
    { ClassSel(<<"passage">>), ClassSel(<<"tw-", "passage">>) }

\* '[role="main"]'
MainSel == Selector("", <<>>, <<Cond(<<"role">>, "=", <<"main">>)>>)

analyzeTwine(d, cx, eng) ==
    Analysis(
        Opt(Cardinality(UNION { QuerySelectorAll(d, sel) :
                                sel \in PassageSelectors }) > 100,
            "Large number of passages may impact performance")
        \o Opt(QuerySelector(d, MainSel) = 0,
               "Missing ARIA roles for accessibility"),
        FALSE, cx, <<>>)

analyzePico8With(canvas, c) ==
    Analysis(
        Opt(c.got = "null", "WebGL not available, using Canvas 2D fallback")
        \o Opt(canvas.width # 128 \/ canvas.height # 128,
               "Non-standard PICO-8 resolution detected"),
        FALSE, c.ctx, c.ev)

analyzePico8On(d, canvas, cx, eng) ==
    IF canvas = 0 THEN Analysis(<<>>, FALSE, cx, <<>>)
    ELSE analyzePico8With(d[canvas],
             GetContextOr(cx, canvas, "webgl", "webgl2", "analyze", eng))

analyzePico8(d, cx, eng) == analyzePico8On(d, QuerySelector(d, CanvasSel), cx, eng)

analyzePuzzleScriptWith(canvas, c) ==
    Analysis(
        Opt(c.got = "null", "Canvas 2D context not available")
        \o Opt(~ImageRendering(canvas), "Pixel-perfect rendering not enabled"),
        FALSE, c.ctx, c.ev)

analyzePuzzleScriptOn(d, canvas, cx, eng) ==
    IF canvas = 0 THEN Analysis(<<>>, FALSE, cx, <<>>)
    ELSE IF ~IsCanvas(d[canvas]) THEN Analysis(<<>>, TRUE, cx, <<>>)
    ELSE analyzePuzzleScriptWith(d[canvas],
             GetContextBy(cx, canvas, "2d", "analyze", eng))

analyzePuzzleScript(d, cx, eng) ==
    analyzePuzzleScriptOn(d, QuerySelector(d, IdSel(<<"gameCanvas">>)), cx, eng)

analyzeTic80With(canvas, c) ==
    Analysis(
        Opt(canvas.width # 240 \/ canvas.height # 136,
            "Non-standard TIC-80 resolution detected")
        \o Opt(c.got = "null", "WebGL not available, using Canvas 2D fallback"),
        FALSE, c.ctx, c.ev)

analyzeTic80On(d, canvas, cx, eng) ==
    IF canvas = 0 THEN Analysis(<<>>, FALSE, cx, <<>>)
    ELSE analyzeTic80With(d[canvas],
             GetContextOr(cx, canvas, "webgl", "webgl2", "analyze", eng))

analyzeTic80(d, cx, eng) == analyzeTic80On(d, QuerySelector(d, CanvasSel), cx, eng)

\* 'script[src*="p5"]'
P5ScriptSel == Selector("script", <<>>, <<Cond(<<"src">>, "*=", <<"p5">>)>>)

\* document.querySelector('script[src*="p5"]')?.textContent?.includes(word),
\* script being what the query gave.
Mentions(d, script, word) == script # 0 /\ Includes(d[script].text, <<word>>)

analyzeP5jsWith(d, script, c) ==
    Analysis(
        Opt(c.got = "null" /\ Mentions(d, script, "WEBGL"),
            "WebGL mode requested but not available")
        \o Opt(~Mentions(d, script, "preload"),
               "preload() function not detected for asset loading"),
        FALSE, c.ctx, c.ev)

analyzeP5jsOn(d, canvas, cx, eng) ==
    IF canvas = 0 THEN Analysis(<<>>, FALSE, cx, <<>>)
    ELSE analyzeP5jsWith(d, QuerySelector(d, P5ScriptSel),
             GetContextBy(cx, canvas, "webgl", "analyze", eng))

analyzeP5js(d, cx, eng) == analyzeP5jsOn(d, QuerySelector(d, CanvasSel), cx, eng)

\* engine.analyze(document)
analyze(engine, d, cx, eng) ==
    CASE engine.analyze = "Unity" -> analyzeUnity(d, cx, eng)
      [] engine.analyze = "Godot" -> analyzeGodot(d, cx, eng)
      [] engine.analyze = "Construct" -> analyzeConstruct(d, cx, eng)
      [] engine.analyze = "GDevelop" -> analyzeGDevelop(d, cx, eng)
      [] engine.analyze = "Bitsy" -> analyzeBitsy(d, cx, eng)
      [] engine.analyze = "Twine" -> analyzeTwine(d, cx, eng)
      [] engine.analyze = "PICO-8" -> analyzePico8(d, cx, eng)
      [] engine.analyze = "PuzzleScript" -> analyzePuzzleScript(d, cx, eng)
      [] engine.analyze = "TIC-80" -> analyzeTic80(d, cx, eng)
      [] engine.analyze = "p5.js" -> analyzeP5js(d, cx, eng)
      [] OTHER -> Analysis(<<>>, FALSE, cx, <<>>)

-----------------------------------------------------------------------------
(* detectFeatures *)

HasAttrNamed(d, n) == QuerySelector(d, AttrSel(n)) # 0

\* 'canvas[style*="image-rendering"]'
StyledCanvasSel ==
    Selector("canvas", <<>>, <<Cond(<<"style">>, "*=", <<"image-rendering">>)>>)

\* 'canvas[width="240"]'
WideCanvasSel == Selector("canvas", <<>>, <<Cond(<<"width">>, "=", <<"240">>)>>)

\* Features found without a context request.
Features(features, cx) == [features |-> features, ctx |-> cx, ev |-> <<>>]

\* case 'PICO-8', c being its context request.
detectFeaturesPico8With(d, c) ==
    [features |->
         (IF c.got # "null" THEN <<"WebGL rendering">>
          ELSE <<"Canvas 2D fallback">>)
         \o Opt(HasAttrNamed(d, <<"ontouchstart">>), "Mobile controls"),
     ctx |-> c.ctx, ev |-> c.ev]

\* case 'PICO-8': canvas?.getContext('webgl') || canvas?.getContext('webgl2')
detectFeaturesPico8(d, canvas, cx, eng) ==
    IF canvas = 0
    THEN Features(<<"Canvas 2D fallback">>
                  \o Opt(HasAttrNamed(d, <<"ontouchstart">>), "Mobile controls"),
                  cx)
    ELSE detectFeaturesPico8With(d,
             GetContextOr(cx, canvas, "webgl", "webgl2", "detectFeatures", eng))

\* detectFeatures(engine, document): the features, and, for PICO-8, the
\* contexts afterwards and the context requests made.
detectFeatures(engine, d, cx, eng) ==
    CASE engine.name = "Bitsy" ->
           Features(Opt(QuerySelector(d, StyledCanvasSel) # 0, "Pixel-perfect scaling")
                    \o Opt(HasAttrNamed(d, <<"ontouchstart">>), "Touch input support"),
                    cx)
      [] engine.name = "Twine" ->
           Features(Opt(HasAttrNamed(d, <<"role">>), "Accessibility support")
                    \o Opt(HasAttrNamed(d, <<"data-", "save">>), "Save system"),
                    cx)
      [] engine.name = "PICO-8" ->
           detectFeaturesPico8(d, QuerySelector(d, CanvasSel), cx, eng)
      [] engine.name = "PuzzleScript" ->
           Features(Opt(QuerySelector(d, IdSel(<<"gameCanvas">>)) # 0,
                        "Standard canvas setup")
                    \o Opt(HasAttrNamed(d, <<"data-", "undo">>), "Undo support"),
                    cx)
      [] engine.name = "TIC-80" ->
           Features(Opt(QuerySelector(d, WideCanvasSel) # 0, "Native resolution")
                    \o Opt(HasAttrNamed(d, <<"data-", "gamepad">>), "Gamepad support"),
                    cx)
      [] OTHER -> Features(<<>>, cx)

-----------------------------------------------------------------------------
(* WebGLDisplayAnalyzer: getSupportedColorFormats and isFormatSupported     *)
(* (src/src/analyzers/display-analyzer.ts)                                  *)

\* The calls of isFormatSupported on the context.
GLSteps == {"bindTexture", "texImage2D", "getError"}

\* The formats getSupportedColorFormats tests with a texture, in its order.
TestedFormats == <<"RGBA", "RGB", "R8", "RG8", "RGBA16F">>

\* A rendering context.  kind: "webgl" or "webgl2".  accepts: the formats
\* texImage2D takes without an error.  sRGB: whether it has EXT_sRGB.
\* gl2class: whether the global WebGL2RenderingContext exists.  raises: <<>>,
\* or <<[call, at]>> when in the call-th isFormatSupported the step `at`
\* throws (a lost or wrapped context).  textures: the textures alive.
Context(kind, accepts, sRGB, gl2class, raises) ==
    [kind |-> kind, accepts |-> accepts, sRGB |-> sRGB, gl2class |-> gl2class,
     raises |-> raises, textures |-> {}]

Raises ==
    { <<>> } \cup { <<[call |-> c, at |-> st]>> :
                      c \in 1..Len(TestedFormats), st \in GLSteps }

\* A version-2 context exists only where WebGL2RenderingContext does.
Contexts ==
    { c \in { Context(kind, accepts, sRGB, gl2class, raises) :
                kind \in {"webgl", "webgl2"},
                accepts \in SUBSET { TestedFormats[f] : f \in 1..Len(TestedFormats) },
                sRGB \in BOOLEAN,
                gl2class \in BOOLEAN,
                raises \in Raises } :
        c.kind = "webgl2" => c.gl2class }

\* getSupportedColorFormats not called yet.
IdleFormats == [pc |-> "idle", call |-> 0, formats |-> <<>>, at |-> ""]

\* gl.createTexture(): a texture not alive
NewTexture(textures) ==
    CHOOSE t \in 1..(Cardinality(textures) + 1) : t \notin textures

\* isFormatSupported from gl.bindTexture on, g being the context with the
\* texture created: the context afterwards, whether a step threw, the value.
isFormatSupportedWith(g, texture, format, call) ==
    IF g.raises # <<>> /\ g.raises[1].call = call
    THEN [gl |-> g, threw |-> TRUE, at |-> g.raises[1].at, value |-> FALSE]
    ELSE [gl |-> [g EXCEPT !.textures = @ \ {texture}], threw |-> FALSE,
          at |-> "", value |-> format \in g.accepts]

\* The context with one more texture alive.
Created(g, texture) == [g EXCEPT !.textures = @ \cup {texture}]

isFormatSupportedOn(g, texture, format, call) ==
    isFormatSupportedWith(Created(g, texture), texture, format, call)

\* isFormatSupported(gl, format), the call-th of this run
isFormatSupported(g, format, call) ==
    isFormatSupportedOn(g, NewTexture(g.textures), format, call)

\* The names getSupportedColorFormats pushes.
FormatName(format) ==
    CASE format = "RGBA" -> "RGBA8"
      [] format = "RGB" -> "RGB8"
      [] OTHER -> format

\* Where getSupportedColorFormats goes after the test of a format.
AfterFormat(format) ==
    CASE format = "RGBA" -> "RGB"
      [] format = "RGB" -> "sRGB"
      [] format = "R8" -> "RG8"
      [] format = "RG8" -> "RGBA16F"
      [] OTHER -> "return"

\* getSupportedColorFormats is called.
GetSupportedColorFormats ==
    /\ fmt.pc \in {"idle", "returned", "raised"}
    /\ Cardinality(gl.textures) < MaxLeaked
    /\ fmt' = [pc |-> "RGBA", call |-> 0, formats |-> <<>>, at |-> ""]
    /\ UNCHANGED gl
    /\ UNCHANGED detectorVars
    /\ UNCHANGED besideVars

\* One line if (this.isFormatSupported(gl, format)) formats.push(name), r
\* being what isFormatSupported gave: what it throws leaves the caller too.
Tested(r) ==
    /\ gl' = r.gl
    /\ fmt' = IF r.threw
              THEN [fmt EXCEPT !.pc = "raised", !.call = @ + 1, !.at = r.at]
              ELSE [fmt EXCEPT !.pc = AfterFormat(fmt.pc), !.call = @ + 1,
                               !.formats = @ \o Opt(r.value, FormatName(fmt.pc))]

IsFormatSupported ==
    /\ fmt.pc \in { TestedFormats[f] : f \in 1..Len(TestedFormats) }
    /\ Tested(isFormatSupported(gl, fmt.pc, fmt.call + 1))
    /\ UNCHANGED detectorVars
    /\ UNCHANGED besideVars

\* The EXT_sRGB lookup and the test gl instanceof WebGL2RenderingContext,
\* which throws where the global does not exist.
GetExtensionSRGB ==
    /\ fmt.pc = "sRGB"
    /\ fmt' = IF ~gl.gl2class
              THEN [fmt EXCEPT !.pc = "raised", !.at = "instanceof",
                               !.formats = @ \o Opt(gl.sRGB, "sRGB")]
              ELSE [fmt EXCEPT !.pc = IF gl.kind = "webgl2" THEN "R8" ELSE "return",
                               !.formats = @ \o Opt(gl.sRGB, "sRGB")]
    /\ UNCHANGED gl
    /\ UNCHANGED detectorVars
    /\ UNCHANGED besideVars

\* return formats
ReturnFormats ==
    /\ fmt.pc = "return"
    /\ fmt' = [fmt EXCEPT !.pc = "returned"]
    /\ UNCHANGED gl
    /\ UNCHANGED detectorVars
    /\ UNCHANGED besideVars

-----------------------------------------------------------------------------
(* WebGLContextManager (src/src/webgl-context.js)                           *)

\* The manager after construction, canvases being the context kind each of
\* the caller's canvases holds: contexts = new Map(), in insertion order.
\* ret and log are not part of the program: what the last call gave, and
\* the createContext and removeContext calls made so far, each with the
\* contexts before and after it.
NewManager(canvases) ==
    [contexts |-> <<>>, canvases |-> canvases, ret |-> <<>>, log |-> <<>>]

\* The ids the callers use.
ContextIds == { "main", "overlay" }

\* What a call gave: a value, or an exception.
Gave(op, value) == <<[op |-> op, threw |-> FALSE, value |-> value]>>

Threw(op) == <<[op |-> op, threw |-> TRUE, value |-> <<>>]>>

\* One call of createContext or removeContext, m being the manager before
\* it and contexts the Map after it.
Logged(m, op, id, ok, got, contexts) ==
    Append(m.log, [op |-> op, id |-> id, ok |-> ok, got |-> got,
                   before |-> m.contexts, after |-> contexts])

\* The position of id among the keys of the Map, 0 when it is not a key.
KeyIndex(contexts, id) ==
    IF \E k \in 1..Len(contexts) : contexts[k].id = id
    THEN CHOOSE k \in 1..Len(contexts) : contexts[k].id = id
    ELSE 0

\* Map.prototype.set: the value of an existing key is replaced where the
\* key stands, a new key goes last.
MapSet(contexts, k, context) ==
    IF k = 0 THEN Append(contexts, context)
    ELSE [contexts EXCEPT ![k] = context]

\* Map.prototype.delete
MapDelete(contexts, k) ==
    IF k = 0 THEN contexts
    ELSE SubSeq(contexts, 1, k - 1) \o SubSeq(contexts, k + 1, Len(contexts))

\* The context object createContext builds around a context of kind got.
ManagedContext(id, canvas, got) ==
    [id |-> id, canvas |-> canvas, gl |-> got,
     capabilities |->
         [webgl2 |-> got = "webgl2",
          maxTextureSize |-> env.maxTextureSize,
          maxViewportDims |-> env.maxViewportDims,
          extensions |-> Extensions(got)]]

\* createContext storing what it built before it tests the context.
createContextStoringFirst(m, id, canvas, c) ==
    IF c.got = "null" \/ ~env.gl2class
    THEN [contexts |-> MapSet(m.contexts, KeyIndex(m.contexts, id),
                              ManagedContext(id, canvas, c.got)),
          canvases |-> c.ctx,
          ret |-> Threw("createContext"),
          log |-> Logged(m, "create", id, FALSE, c.got,
                         MapSet(m.contexts, KeyIndex(m.contexts, id),
                                ManagedContext(id, canvas, c.got)))]
    ELSE [contexts |-> MapSet(m.contexts, KeyIndex(m.contexts, id),
                              ManagedContext(id, canvas, c.got)),
          canvases |-> c.ctx,
          ret |-> Gave("createContext", ManagedContext(id, canvas, c.got)),
          log |-> Logged(m, "create", id, TRUE, c.got,
                         MapSet(m.contexts, KeyIndex(m.contexts, id),
                                ManagedContext(id, canvas, c.got)))]

\* createContext after its context request, c: it throws without a context,
\* and at 'gl instanceof WebGL2RenderingContext' where the host has no such
\* global; otherwise it stores the context object under id and returns it.
createContextWith(m, id, canvas, c) ==
    IF c.got = "null" \/ ~env.gl2class
    THEN [contexts |-> m.contexts,
          canvases |-> c.ctx,
          ret |-> Threw("createContext"),
          log |-> Logged(m, "create", id, FALSE, c.got, m.contexts)]
    ELSE [contexts |-> MapSet(m.contexts, KeyIndex(m.contexts, id),
                              ManagedContext(id, canvas, c.got)),
          canvases |-> c.ctx,
          ret |-> Gave("createContext", ManagedContext(id, canvas, c.got)),
          log |-> Logged(m, "create", id, TRUE, c.got,
                         MapSet(m.contexts, KeyIndex(m.contexts, id),
                                ManagedContext(id, canvas, c.got)))]

\* createContext(id, canvas):
\* canvas.getContext('webgl2') || canvas.getContext('webgl')
createContext(m, id, canvas) ==
    createContextWith(m, id, canvas,
        GetContextOr(m.canvases, canvas, "webgl2", "webgl", "createContext", 0))

\* getContext(id): this.contexts.get(id), <<>> for undefined
getContext(m, id) ==
    IF KeyIndex(m.contexts, id) = 0 THEN <<>>
    ELSE <<m.contexts[KeyIndex(m.contexts, id)]>>

\* removeContext(id): this.contexts.delete(id)
removeContext(m, id) ==
    [m EXCEPT
        !.contexts = MapDelete(m.contexts, KeyIndex(m.contexts, id)),
        !.ret = Gave("removeContext", KeyIndex(m.contexts, id) # 0),
        !.log = Logged(m, "remove", id, KeyIndex(m.contexts, id) # 0, "",
                       MapDelete(m.contexts, KeyIndex(m.contexts, id)))]

\* listContexts(): Array.from(this.contexts.keys())
listContexts(m) == [k \in 1..Len(m.contexts) |-> m.contexts[k].id]

CreateContext ==
    /\ Len(manager.log) < MaxCalls
    /\ \E id \in ContextIds, canvas \in 1..Len(manager.canvases) :
           manager' = createContext(manager, id, canvas)
    /\ UNCHANGED <<detectorVars, displayVars, other>>

GetStoredContext ==
    /\ \E id \in ContextIds :
           manager' = [manager EXCEPT
                          !.ret = Gave("getContext", getContext(manager, id))]
    /\ UNCHANGED <<detectorVars, displayVars, other>>

RemoveContext ==
    /\ Len(manager.log) < MaxCalls
    /\ \E id \in ContextIds : manager' = removeContext(manager, id)
    /\ UNCHANGED <<detectorVars, displayVars, other>>

ListContexts ==
    /\ manager' = [manager EXCEPT
                      !.ret = Gave("listContexts", listContexts(manager))]
    /\ UNCHANGED <<detectorVars, displayVars, other>>

-----------------------------------------------------------------------------
(* detectEngine *)

\* null, and a non-null EngineDetectionResult
Null == <<>>

\* The test that makes engine i the best match so far, written as
\* !(confidence <= highestConfidence): true of NaN.
BetterUnordered(c, highest) == ~Ge(highest, c)

\* The test that makes engine i the best match so far, with >= for >.
BetterOrEqual(c, highest) == Ge(c, highest)

\* The test that makes engine i the best match so far.
Better(c, highest) == Gt(c, highest)

\* The contexts the page had requested before the inspection.
InitialContexts(d) ==
    [k \in 1..Len(d) |->
        IF IsCanvas(d[k]) /\ d[k].pre # "none" /\ Supported(d[k].pre)
        THEN d[k].pre ELSE "none"]

\* A call of detectEngine(d) not yet begun: its snapshot, and its locals.
\* overlapped is not part of the program: whether the call took a step while
\* the call that the trace follows was under way.
Waiting(d) ==
    [doc |-> d, ctx |-> InitialContexts(d), pc |-> "idle", i |-> 0,
     confidence |-> Num(0, 1), bestMatch |-> Null,
     highestConfidence |-> Num(0, 1), result |-> Null, overlapped |-> FALSE]

\* The state after construction, the registry being one of registries.
Constructed(registries) ==
    /\ doc \in Documents
    /\ env \in Environments
    /\ engines \in registries
    /\ ctx = InitialContexts(doc)
    /\ pc = "idle"
    /\ i = 0
    /\ confidence = Num(0, 1)
    /\ bestMatch = Null
    /\ highestConfidence = Num(0, 1)
    /\ result = Null
    /\ scores = <<>>
    /\ trace = <<>>
    /\ previous = <<>>
    /\ gl = Context("webgl", {}, FALSE, FALSE, <<>>)
    /\ fmt = IdleFormats
    /\ manager = NewManager(<<>>)

Init == Constructed({ BuiltinEngines }) /\ other = Waiting(<<>>)

\* Where the loop goes after engine k.
AfterEngine(k) == IF k + 1 > Len(engines) THEN "return" ELSE "score"

\* How a call ended: by returning a result or null ("done"), or by rejecting.
Outcome(how, res) == [outcome |-> how, result |-> res]

\* detectEngine is called: bestMatch = null, highestConfidence = 0.
Call ==
    /\ pc \in {"idle", "done", "rejected"}
    /\ pc' = IF Len(engines) = 0 THEN "return" ELSE "score"
    /\ i' = 1
    /\ confidence' = Num(0, 1)
    /\ bestMatch' = Null
    /\ highestConfidence' = Num(0, 1)
    /\ result' = Null
    /\ scores' = <<>>
    /\ trace' = <<>>
    /\ previous' = IF pc = "idle" THEN <<>> ELSE <<Outcome(pc, result)>>
    /\ UNCHANGED <<doc, env, engines, ctx>>
    /\ UNCHANGED displayVars
    /\ UNCHANGED besideVars

\* One iteration that goes on to the next engine without engine.analyze
\* having run.
ScoredUnawaited(r) ==
    /\ ctx' = r.ctx
    /\ trace' = trace \o r.ev
    /\ IF r.threw
       THEN /\ pc' = "rejected"
            /\ UNCHANGED <<i, confidence, scores>>
       ELSE /\ confidence' = r.value
            /\ scores' = Append(scores, r.value)
            /\ pc' = AfterEngine(i)
            /\ i' = i + 1

\* One iteration up to the test, r being what calculateConfidence gave.
Scored(r) ==
    /\ ctx' = r.ctx
    /\ trace' = trace \o r.ev
    /\ IF r.threw
       THEN /\ pc' = "rejected"
            /\ UNCHANGED <<i, confidence, scores>>
       ELSE /\ confidence' = r.value
            /\ scores' = Append(scores, r.value)
            /\ IF Better(r.value, highestConfidence)
               THEN pc' = "analyze" /\ i' = i
               ELSE pc' = AfterEngine(i) /\ i' = i + 1

\* One iteration up to the test: await calculateConfidence, then the test.
Score ==
    /\ pc = "score"
    /\ Scored(calculateConfidence(engines[i], doc, ctx, i))
    /\ UNCHANGED <<doc, env, engines, bestMatch, highestConfidence, result,
                   previous>>
    /\ UNCHANGED displayVars
    /\ UNCHANGED besideVars

\* The value of highestConfidence after engine i became the best match, left
\* at 0.
HighestStale(c) == Num(0, 1)

\* highestConfidence = confidence
Highest(c) == c

\* The result, with the warnings added to those of the best match before.
AssembledAccumulating(engine, c, f, a) ==
    [engineName |-> engine.name,
     confidence |-> c,
     features |-> f.features,
     recommendations |-> engine.recommendations,
     warnings |-> (IF bestMatch = Null THEN <<>> ELSE bestMatch[1].warnings)
                  \o a.warnings]

\* bestMatch = { engineName, confidence, features, recommendations, warnings }
Assembled(engine, c, f, a) ==
    [engineName |-> engine.name,
     confidence |-> c,
     features |-> f.features,
     recommendations |-> engine.recommendations,
     warnings |-> a.warnings]

\* The body of the test after analyze, a, returned: detectFeatures, f, and the
\* assignments.
Assigned(a, f) ==
    /\ pc' = AfterEngine(i)
    /\ i' = i + 1
    /\ ctx' = f.ctx
    /\ trace' = trace \o <<Ev("analyze", engines[i].name, i, 0, "", TRUE)>> \o a.ev
                \o <<Ev("features", engines[i].name, i, 0, "", TRUE)>> \o f.ev
    /\ bestMatch' = <<Assembled(engines[i], confidence, f, a)>>
    /\ highestConfidence' = Highest(confidence)

\* The body of the test, a being what engine.analyze gave: its exception
\* rejects the call.
Analyzed(a) ==
    IF a.threw
    THEN /\ pc' = "rejected"
         /\ ctx' = a.ctx
         /\ trace' = trace \o <<Ev("analyze", engines[i].name, i, 0, "", FALSE)>>
                     \o a.ev
         /\ UNCHANGED <<i, bestMatch, highestConfidence>>
    ELSE Assigned(a, detectFeatures(engines[i], doc, a.ctx, i))

\* The body of the test: await engine.analyze, then detectFeatures and the
\* assignments.
Analyze ==
    /\ pc = "analyze"
    /\ Analyzed(analyze(engines[i], doc, ctx, i))
    /\ UNCHANGED <<doc, env, engines, confidence, result, scores, previous>>
    /\ UNCHANGED displayVars
    /\ UNCHANGED besideVars

\* return bestMatch
Return ==
    /\ pc = "return"
    /\ pc' = "done"
    /\ result' = bestMatch
    /\ UNCHANGED <<doc, env, engines, ctx, i, confidence, bestMatch,
                   highestConfidence, scores, trace, previous>>
    /\ UNCHANGED displayVars
    /\ UNCHANGED besideVars

Next == Call \/ Score \/ Analyze \/ Return

Spec == Init /\ [][Next]_vars

\* The display analyzer alone, on the contexts of Contexts.
InitFormats ==
    /\ doc = <<>>
    /\ env = DesktopBrowser
    /\ engines = BuiltinEngines
    /\ ctx = InitialContexts(doc)
    /\ pc = "idle"
    /\ i = 0
    /\ confidence = Num(0, 1)
    /\ bestMatch = Null
    /\ highestConfidence = Num(0, 1)
    /\ result = Null
    /\ scores = <<>>
    /\ trace = <<>>
    /\ previous = <<>>
    /\ gl \in Contexts
    /\ fmt = IdleFormats
    /\ other = Waiting(<<>>)
    /\ manager = NewManager(<<>>)

NextFormats ==
    GetSupportedColorFormats \/ IsFormatSupported \/ GetExtensionSRGB
        \/ ReturnFormats

SpecFormats == InitFormats /\ [][NextFormats]_vars

\* The context manager alone, on two canvases of the caller: a fresh one, and
\* one that holds a 2d context where the host has one to give.
InitManager ==
    /\ doc = <<>>
    /\ env \in Environments
    /\ engines = BuiltinEngines
    /\ ctx = InitialContexts(doc)
    /\ pc = "idle"
    /\ i = 0
    /\ confidence = Num(0, 1)
    /\ bestMatch = Null
    /\ highestConfidence = Num(0, 1)
    /\ result = Null
    /\ scores = <<>>
    /\ trace = <<>>
    /\ previous = <<>>
    /\ gl = Context("webgl", {}, FALSE, FALSE, <<>>)
    /\ fmt = IdleFormats
    /\ other = Waiting(<<>>)
    /\ manager = NewManager(<<"none", Held("none", "2d")>>)

NextManager ==
    CreateContext \/ GetStoredContext \/ RemoveContext \/ ListContexts

SpecManager == InitManager /\ [][NextManager]_vars


-----------------------------------------------------------------------------
(* Registries other than the built-in one.  GameEngine and EngineSignature *)
(* admit profiles the built-in registry has none of: a signature list      *)
(* that is empty, a canvas signature with neither size nor patterns, two   *)
(* profiles with the same signatures.                                      *)

\* analyze: async () => []
PlainProfile(name, signatures) ==
    [name |-> name, signatures |-> signatures,
     recommendations |-> <<"Profile the page">>, analyze |-> "none"]

ProbeSignatures ==
    << Sig("canvas", Absent, Absent, Absent),
       Sig("webgl", Absent, Absent, Given(<<<<"precision">>>>)) >>

ProbeA == PlainProfile("ProbeA", ProbeSignatures)

ProbeB == PlainProfile("ProbeB", ProbeSignatures)

Sized ==
    PlainProfile("Sized",
        << Sig("canvas", Absent, Given([width |-> 128, height |-> 128]), Absent),
           Sig("canvas", Given(<<<<"p5Canvas">>, <<"gameCanvas">>>>), Absent, Absent),
           Sig("dom", Given(<<<<"passage">>>>), Absent, Absent),
           Sig("dom", Absent, Absent, Absent) >>)

Unsigned == PlainProfile("Unsigned", <<>>)

Registries ==
    { <<ProbeA, ProbeB>>,
      <<Sized, ProbeB, ProbeA>>,
      <<Sized, Unsigned, ProbeA>>,
      <<Unsigned>> \o BuiltinEngines }

InitReg == Constructed(Registries) /\ other = Waiting(<<>>)

SpecReg == InitReg /\ [][Next]_vars

-----------------------------------------------------------------------------
(* What a call did, read off its trace *)

\* The positions of the trace at which engine k had a signature evaluated.
SigEvents(k) ==
    { n \in 1..Len(trace) : trace[n].ev = "sig" /\ trace[n].eng = k }

\* The number of signatures of engine k that matched.
MatchCount(k) == Cardinality({ n \in SigEvents(k) : trace[n].ok })

\* The engines whose analyze routine was invoked.
AnalyzedEngines ==
    { trace[n].eng : n \in { m \in 1..Len(trace) : trace[m].ev = "analyze" } }

\* The engines whose score was positive and above every earlier score.
RunningMaxima ==
    { k \in 1..Len(scores) :
        /\ Gt(scores[k], Num(0, 1))
        /\ \A j \in 1..(k - 1) : Gt(scores[k], scores[j]) }

\* The indices of the engines that carry the name of the returned result.
Returned == { k \in 1..Len(engines) : engines[k].name = result[1].engineName }

Zero == Num(0, 1)

One == Num(1, 1)

NoCanvas == QuerySelector(doc, CanvasSel) = 0

-----------------------------------------------------------------------------
(* Properties *)

\* C1: every confidence the scorer computed is the number of the profile's
\* signatures that matched divided by the number of its signatures, each
\* signature counting once, and lies between 0 and 1.
C1_ConfidenceIsMatchRatio ==
    \A k \in 1..Len(scores) :
        /\ scores[k] = Num(MatchCount(k), Len(engines[k].signatures))
        /\ Ge(scores[k], Zero)
        /\ Ge(One, scores[k])

\* A profile scored strictly between 0 and 1 with its webgl signature matching.
C1_PartialWebGLScore ==
    \E k \in 1..Len(scores) :
        /\ MatchCount(k) > 0
        /\ MatchCount(k) < Len(engines[k].signatures)
        /\ \E n \in SigEvents(k) : trace[n].by = "webgl" /\ trace[n].ok

\* C2: a non-null result names a profile whose score is at least the score of
\* every profile of the registry, and carries that score as its confidence.
C2_ReturnedScoreIsMaximal ==
    (pc = "done" /\ result # Null) =>
        \E k \in Returned :
            /\ NumEq(result[1].confidence, scores[k])
            /\ \A j \in 1..Len(scores) : Ge(scores[k], scores[j])

\* A call returned a profile after a later profile scored lower, above 0.
C2_LaterLowerScore ==
    /\ pc = "done"
    /\ result # Null
    /\ \E k \in Returned : \E j \in (k + 1)..Len(scores) :
           Gt(scores[k], scores[j]) /\ Gt(scores[j], Zero)

\* C3: among the profiles that share the highest score the first registered
\* is returned: no profile registered before the returned one scored as much
\* or more.
C3_FirstRegisteredWinsTies ==
    (pc = "done" /\ result # Null) =>
        \A k \in Returned : \A j \in 1..(k - 1) : ~Ge(scores[j], scores[k])

\* A call returned a profile while a later profile had the same score.
C3_TieReturned ==
    /\ pc = "done"
    /\ result # Null
    /\ \E k \in Returned : \E j \in (k + 1)..Len(scores) :
           NumEq(scores[j], scores[k])

\* C4: the result is null exactly when no profile scored above 0, and the
\* confidence of a result is above 0 and at most 1.
C4_NullIffNoPositiveScore ==
    pc = "done" =>
        /\ result = Null <=> \A k \in 1..Len(scores) : ~Gt(scores[k], Zero)
        /\ result # Null =>
               Gt(result[1].confidence, Zero) /\ Ge(One, result[1].confidence)

\* A call on a document with elements returned null, every profile scored.
C4_NullReturned ==
    /\ pc = "done"
    /\ result = Null
    /\ Len(doc) > 0
    /\ Len(scores) = Len(engines)

\* C5: an analyze routine that throws does not fail the call.
C5_AnalyzeFailureRecovered ==
    \A n \in 1..Len(trace) :
        (trace[n].ev = "analyze" /\ ~trace[n].ok) => pc # "rejected"

\* C6: the call completes with a result or null; it never rejects.
C6_ClassifyNeverRejects == pc # "rejected"

\* C7: a profile with an empty signature list never reaches the scorer.
C7_EmptyProfileNeverScored ==
    \A k \in 1..Len(scores) : engines[k].signatures # <<>>

\* C8: analyze is invoked for no profile but the one the result names, and for
\* none when the result is null.
C8_OnlyWinnerAnalyzed ==
    pc = "done" =>
        \A k \in AnalyzedEngines : result # Null /\ k \in Returned

\* C8, amended: analyze is invoked only for the profiles whose score was
\* positive and above every earlier score, for each of them by the end of the
\* call; the last of them is the one the result names, and the result is null
\* exactly when there is none.
C8_RunningMaximaAnalyzed ==
    /\ AnalyzedEngines \subseteq RunningMaxima
    /\ pc = "done" =>
           /\ AnalyzedEngines = RunningMaxima
           /\ result = Null <=> AnalyzedEngines = {}
           /\ result # Null =>
                  \E k \in Returned : \A j \in AnalyzedEngines : j <= k

\* A call that returned had invoked analyze for two profiles.
C8_TwoAnalyzed ==
    /\ pc = "done"
    /\ Cardinality(AnalyzedEngines) >= 2

\* C9: on a document without a canvas every canvas and every webgl signature
\* evaluates to false, and evaluating a signature throws nothing.
C9_NoCanvasNoMatch ==
    NoCanvas =>
        /\ \A n \in 1..Len(trace) :
               (trace[n].ev = "sig" /\ trace[n].by \in {"canvas", "webgl"})
                   => ~trace[n].ok
        /\ pc = "rejected" => trace[Len(trace)].ev # "sig"

\* A call on a document with elements and no canvas returned after a canvas
\* signature with neither size nor patterns, one with a size, one with
\* patterns and a webgl signature were evaluated.
C9_AllFormsEvaluated ==
    /\ NoCanvas
    /\ Len(doc) > 0
    /\ pc = "done"
    /\ \E n \in 1..Len(trace) : trace[n].ev = "sig" /\ trace[n].by = "webgl"
    /\ \A size, patterns \in BOOLEAN :
           (size /\ patterns) \/
           \E n \in 1..Len(trace) :
               /\ trace[n].ev = "sig"
               /\ trace[n].by = "canvas"
               /\ IsGiven(engines[trace[n].eng].signatures[trace[n].idx].size) = size
               /\ IsGiven(engines[trace[n].eng].signatures[trace[n].idx].patterns)
                      = patterns

\* C10: a request of the webgl matcher for a version-1 context follows its
\* request for a version-2 context of the same canvas that yielded none.
C10_Version2First ==
    \A n \in 1..Len(trace) :
        (trace[n].ev = "getContext" /\ trace[n].by = "matchWebGL"
         /\ trace[n].kind = "webgl")
            => /\ n > 1
               /\ trace[n - 1].ev = "getContext"
               /\ trace[n - 1].by = "matchWebGL"
               /\ trace[n - 1].eng = trace[n].eng
               /\ trace[n - 1].idx = trace[n].idx
               /\ trace[n - 1].kind = "webgl2"
               /\ ~trace[n - 1].ok

\* The signature a "sig" entry of the trace is about.
SignatureOf(ev) == engines[ev.eng].signatures[ev.idx]

\* C11: a canvas signature with a size matches exactly when some canvas of
\* the document, the first or a later one, has that width and that height.
C11_SizeMatchesAnyCanvas ==
    \A n \in 1..Len(trace) :
        (trace[n].ev = "sig" /\ trace[n].by = "canvas"
         /\ IsGiven(SignatureOf(trace[n]).size))
            => (trace[n].ok <=>
                    \E k \in 1..Len(doc) :
                        /\ IsCanvas(doc[k])
                        /\ doc[k].width = SignatureOf(trace[n]).size[1].width
                        /\ doc[k].height = SignatureOf(trace[n]).size[1].height)

\* C12: a dom signature matches exactly when it has patterns and, for one of
\* them, some element has it as a class, as its id, or has an attribute named
\* data- followed by it.
C12_DomMatchesClassIdOrData ==
    \A n \in 1..Len(trace) :
        (trace[n].ev = "sig" /\ trace[n].by = "dom")
            => (trace[n].ok <=>
                    /\ IsGiven(SignatureOf(trace[n]).patterns)
                    /\ \E p \in 1..Len(SignatureOf(trace[n]).patterns[1]) :
                       \E k \in 1..Len(doc) :
                           \/ SignatureOf(trace[n]).patterns[1][p]
                                  \in ClassList(doc[k].cls)
                           \/ doc[k].id = SignatureOf(trace[n]).patterns[1][p]
                           \/ \E a \in 1..Len(doc[k].attrs) :
                                  doc[k].attrs[a].n =
                                      <<"data-">> \o SignatureOf(trace[n]).patterns[1][p])

\* A dom signature matched though no element has one of its patterns as a
\* class or as its id: through a data- attribute.
C12_MatchedByDataAttribute ==
    \E n \in 1..Len(trace) :
        /\ trace[n].ev = "sig" /\ trace[n].by = "dom" /\ trace[n].ok
        /\ \A p \in 1..Len(SignatureOf(trace[n]).patterns[1]) :
           \A k \in 1..Len(doc) :
               /\ SignatureOf(trace[n]).patterns[1][p] \notin ClassList(doc[k].cls)
               /\ doc[k].id # SignatureOf(trace[n]).patterns[1][p]

\* C13: a call that follows another one on the same document ends as that
\* one did: with the same result (name, confidence, features,
\* recommendations and warnings), with null, or with the same failure.
C13_SecondCallIdentical ==
    (pc \in {"done", "rejected"} /\ previous # <<>>)
        => previous[1] = Outcome(pc, result)

\* A second call returned a result with warnings, the first call having made
\* a canvas hand out a context.
C13_RepeatedAfterContexts ==
    /\ pc = "done"
    /\ previous # <<>>
    /\ result # Null
    /\ result[1].warnings # <<>>
    /\ ctx # InitialContexts(doc)

\* C14: the profiles are processed one after the other in registration order:
\* what the call does for a profile never precedes what it does for an
\* earlier one, the signatures of a profile are evaluated in their order, and
\* a profile that improved on the best score has had its analyze routine
\* invoked before a signature of a later profile is evaluated.
C14_Sequential ==
    /\ \A n \in 1..(Len(trace) - 1) : trace[n].eng <= trace[n + 1].eng
    /\ \A m \in 1..Len(trace) :
           (trace[m].ev = "sig" /\ trace[m].idx > 1) =>
               \E n \in 1..(m - 1) :
                   /\ trace[n].ev = "sig"
                   /\ trace[n].eng = trace[m].eng
                   /\ trace[n].idx = trace[m].idx - 1
    /\ \A k \in RunningMaxima :
           (\E m \in 1..Len(trace) : trace[m].ev = "sig" /\ trace[m].eng > k)
               => k \in AnalyzedEngines

\* A signature of a profile was evaluated after the analyze routine of the
\* profile before it had run and requested a context.
C14_NextAfterAnalysis ==
    \E n, m \in 1..Len(trace) :
        /\ n + 1 < m
        /\ trace[n].ev = "analyze"
        /\ trace[n + 1].ev = "getContext"
        /\ trace[m].ev = "sig"
        /\ trace[m].eng = trace[n].eng + 1

\* C15: the recommendations of a result are those of the profile it names,
\* and its warnings and features are what the analyze routine and
\* detectFeatures give for that profile, not those of a candidate that was
\* superseded.
C15_FieldsOfWinner ==
    (pc = "done" /\ result # Null) =>
        \E k \in Returned :
            /\ result[1].recommendations = engines[k].recommendations
            /\ result[1].warnings = analyze(engines[k], doc, ctx, k).warnings
            /\ result[1].features = detectFeatures(engines[k], doc, ctx, k).features

\* A call returned a result with warnings and features after it had
\* superseded a candidate whose analyze routine gives warnings too.
C15_SupersededWithWarnings ==
    /\ pc = "done"
    /\ result # Null
    /\ result[1].warnings # <<>>
    /\ result[1].features # <<>>
    /\ \E j \in AnalyzedEngines \ Returned :
           analyze(engines[j], doc, ctx, j).warnings # <<>>

\* The probes of a version-2 context that reports no extensions.
BareProbes ==
    { n \in 1..Len(trace) :
        /\ trace[n].ev = "probe"
        /\ trace[n].ok
        /\ trace[n].kind = "webgl2"
        /\ env.exts2 = {} }

C17_TextureReleased == fmt.call > 0 => gl.textures = {}

NoScripts == \A k \in 1..Len(doc) : ~IsScript(doc[k])

\* The entries of the trace for signatures of these types that matched.
MatchedOfTypes(types) ==
    { n \in 1..Len(trace) :
        trace[n].ev = "sig" /\ trace[n].by \in types /\ trace[n].ok }

\* C18: on a document without canvas and without script elements no
\* signature matches, whatever other elements it has, and the call returns
\* null.
C18_NothingMatches ==
    (NoCanvas /\ NoScripts) =>
        /\ MatchedOfTypes({"canvas", "webgl", "script", "dom", "html"}) = {}
        /\ pc = "done" => result = Null

\* C18, amended: on a document without canvas and without script elements
\* no canvas, webgl or script signature matches and evaluating a signature
\* throws nothing; dom and html signatures can match its other elements, and
\* the call returns null exactly when none of them does.
C18_OnlyDomAndHtmlMatch ==
    (NoCanvas /\ NoScripts) =>
        /\ MatchedOfTypes({"canvas", "webgl", "script"}) = {}
        /\ pc = "rejected" => trace[Len(trace)].ev # "sig"
        /\ pc = "done" =>
               (result = Null <=> MatchedOfTypes({"dom", "html"}) = {})

\* A call on a document without canvas and without script elements returned
\* a result, a dom signature having matched.
C18_PassageDetected ==
    /\ NoCanvas
    /\ NoScripts
    /\ pc = "done"
    /\ result # Null
    /\ MatchedOfTypes({"dom"}) # {}

\* C19: on the empty document the call does not fail and returns null.
C19_EmptyDocumentGivesNull ==
    Len(doc) = 0 =>
        /\ pc # "rejected"
        /\ pc = "done" => result = Null

\* A call on the empty document returned, every profile scored 0.
C19_EmptyDocumentClassified ==
    /\ Len(doc) = 0
    /\ pc = "done"
    /\ Len(scores) = Len(engines)
    /\ \A k \in 1..Len(scores) : scores[k] = Num(0, Len(engines[k].signatures))

\* The warnings the analyze routines give on account of a missing context.
MissingContextWarnings ==
    { "WebGL not available, falling back to Canvas2D",
      "WebGL not available, performance may be impacted",
      "WebGL not available, using Canvas 2D fallback",
      "Canvas 2D context not available",
      "WebGL mode requested but not available" }

\* The analyze routine of engine k asked for a context and obtained none.
NoContextFor(k) ==
    /\ \E n \in 1..Len(trace) :
           trace[n].ev = "getContext" /\ trace[n].by = "analyze" /\ trace[n].eng = k
    /\ \A n \in 1..Len(trace) :
           (trace[n].ev = "getContext" /\ trace[n].by = "analyze" /\ trace[n].eng = k)
               => ~trace[n].ok

\* C20: an analyze routine that obtains no context from the canvas completes
\* without error and gives no warning on account of the missing context.
C20_NoContextNoWarning ==
    \A k \in AnalyzedEngines :
        NoContextFor(k) =>
            /\ \A n \in 1..Len(trace) :
                   (trace[n].ev = "analyze" /\ trace[n].eng = k) => trace[n].ok
            /\ (pc = "done" /\ result # Null /\ k \in Returned) =>
                   \A w \in 1..Len(result[1].warnings) :
                       result[1].warnings[w] \notin MissingContextWarnings

\* C21: a call leaves the snapshot as it was and creates no rendering
\* context: a canvas without a context at construction has none later, and
\* the registry is the one the detector was constructed with.
C21_NoContextCreated ==
    /\ Len(ctx) = Len(doc)
    /\ \A k \in 1..Len(doc) :
           InitialContexts(doc)[k] = "none" => ctx[k] = "none"
    /\ engines = BuiltinEngines

-----------------------------------------------------------------------------
(* The caller's use of a returned result *)

\* What the caller does to an array: length = 0, or push of an entry.
Mutated(list, how) ==
    IF how = "clear" THEN <<>> ELSE Append(list, "caller's note")

\* The engine the returned result was assembled from: the last one whose
\* features were detected.
Winner ==
    trace[CHOOSE n \in 1..Len(trace) :
              /\ trace[n].ev = "features"
              /\ \A m \in (n + 1)..Len(trace) : trace[m].ev # "features"].eng

\* The registry after the array at `field` of the returned result was
\* mutated: recommendations is engine.recommendations itself, warnings and
\* features are arrays made by the call.
Aliased(field, how) ==
    IF field = "recommendations"
    THEN [engines EXCEPT ![Winner].recommendations = Mutated(@, how)]
    ELSE engines

\* The caller mutates an array of the result it was given.
MutateResult ==
    /\ pc = "done"
    /\ result # Null
    /\ \E field \in { "recommendations", "warnings", "features" },
          how \in { "clear", "push" } :
           /\ how = "clear" => Len(result[1][field]) > 0
           /\ how = "push" =>
                  \A n \in 1..Len(result[1][field]) :
                      result[1][field][n] # "caller's note"
           /\ result' = <<[result[1] EXCEPT ![field] = Mutated(@, how)]>>
           /\ engines' = Aliased(field, how)
    /\ UNCHANGED <<doc, env, ctx, pc, i, confidence, bestMatch,
                   highestConfidence, scores, trace, previous>>
    /\ UNCHANGED displayVars
    /\ UNCHANGED besideVars

NextOwned == Call \/ Score \/ Analyze \/ Return \/ MutateResult

\* The detector in a desktop browser, its results handed to such a caller.
InitOwned == Init /\ env = DesktopBrowser

SpecOwned == InitOwned /\ [][NextOwned]_vars

\* C22: whatever the caller does to a result, the registry stays the one the
\* detector was constructed with and a call returns the recommendations of
\* the built-in profile it names.
C22_ResultOwnedByCaller ==
    /\ engines = BuiltinEngines
    /\ (pc = "return" /\ bestMatch # Null) =>
           \E k \in 1..Len(BuiltinEngines) :
               /\ BuiltinEngines[k].name = bestMatch[1].engineName
               /\ BuiltinEngines[k].recommendations = bestMatch[1].recommendations

-----------------------------------------------------------------------------
(* Two calls of detectEngine on one detector, interleaved at their awaits.  *)
(* calculateConfidence is one step: between its awaits it reads and writes  *)
(* its own locals and the document it was given, nothing of the detector.   *)

\* The running best as a field of the detector, which every call reads.
RunningBestOfDetector(o) == highestConfidence

\* The running best a call tests a score against: its local highestConfidence.
RunningBest(o) == o.highestConfidence

\* Where the loop of a call on the registry reg goes after engine k.
AfterEngineIn(reg, k) == IF k + 1 > Len(reg) THEN "return" ELSE "score"

\* The call o, on a detector whose registry is reg, after the body of the
\* test: bestMatch and highestConfidence.
StepAssigned(reg, o, a, f) ==
    [o EXCEPT !.pc = AfterEngineIn(reg, o.i),
              !.i = o.i + 1,
              !.ctx = f.ctx,
              !.bestMatch = <<Assembled(reg[o.i], o.confidence, f, a)>>,
              !.highestConfidence = Highest(o.confidence)]

\* The call o after await engine.analyze, a being what it gave.
StepAnalyzed(reg, o, a) ==
    IF a.threw THEN [o EXCEPT !.pc = "rejected", !.ctx = a.ctx]
    ELSE StepAssigned(reg, o, a, detectFeatures(reg[o.i], o.doc, a.ctx, o.i))

\* The call o after await calculateConfidence, r being what it gave.
StepScored(reg, o, r) ==
    IF r.threw THEN [o EXCEPT !.pc = "rejected", !.ctx = r.ctx]
    ELSE IF Better(r.value, RunningBest(o))
    THEN [o EXCEPT !.pc = "analyze", !.ctx = r.ctx, !.confidence = r.value]
    ELSE [o EXCEPT !.pc = AfterEngineIn(reg, o.i), !.i = o.i + 1,
                   !.ctx = r.ctx, !.confidence = r.value]

\* The call o up to its next await, or to its return.
Step(reg, o) ==
    CASE o.pc = "idle" ->
           [o EXCEPT !.pc = IF Len(reg) = 0 THEN "return" ELSE "score",
                     !.i = 1]
      [] o.pc = "score" ->
           StepScored(reg, o, calculateConfidence(reg[o.i], o.doc, o.ctx, o.i))
      [] o.pc = "analyze" ->
           StepAnalyzed(reg, o, analyze(reg[o.i], o.doc, o.ctx, o.i))
      [] o.pc = "return" ->
           [o EXCEPT !.pc = "done", !.result = o.bestMatch]

\* The call o run to its end with no other call on the detector.
RECURSIVE RunAlone(_, _)
RunAlone(reg, o) ==
    IF o.pc \in {"done", "rejected"} THEN o ELSE RunAlone(reg, Step(reg, o))

\* A step of the second call, taken while the first is where it is.
Stepped(o) ==
    [o EXCEPT !.overlapped = @ \/ pc \in {"score", "analyze", "return"}]

CallOther ==
    /\ other.pc = "idle"
    /\ other' = Stepped(Step(engines, other))
    /\ UNCHANGED <<detectorVars, displayVars, manager>>

ScoreOther ==
    /\ other.pc = "score"
    /\ other' = Stepped(Step(engines, other))
    /\ UNCHANGED <<detectorVars, displayVars, manager>>

AnalyzeOther ==
    /\ other.pc = "analyze"
    /\ other' = Stepped(Step(engines, other))
    /\ UNCHANGED <<detectorVars, displayVars, manager>>

ReturnOther ==
    /\ other.pc = "return"
    /\ other' = Stepped(Step(engines, other))
    /\ UNCHANGED <<detectorVars, displayVars, manager>>

\* The documents the two calls are given: one canvas or one div.
Snapshots == { d \in Documents : Len(d) = 1 /\ d[1].tag # "script" }

InitConcurrent ==
    /\ Constructed({ BuiltinEngines })
    /\ doc \in Snapshots
    /\ other \in { Waiting(d) : d \in Snapshots }

NextConcurrent ==
    \/ Call \/ Score \/ Analyze \/ Return
    \/ CallOther \/ ScoreOther \/ AnalyzeOther \/ ReturnOther

SpecConcurrent == InitConcurrent /\ [][NextConcurrent]_vars

\* C23: each of two interleaved calls ends as that call ends when run alone
\* on its snapshot.
C23_EachAsAlone ==
    /\ other.pc \in {"done", "rejected"} =>
           Outcome(other.pc, other.result)
               = Outcome(RunAlone(engines, Waiting(other.doc)).pc,
                         RunAlone(engines, Waiting(other.doc)).result)
    /\ (pc \in {"done", "rejected"} /\ previous = <<>>) =>
           Outcome(pc, result)
               = Outcome(RunAlone(engines, Waiting(doc)).pc,
                         RunAlone(engines, Waiting(doc)).result)

\* Both calls returned a result, the second having run while the first was
\* under way, and the first scored higher than the second.
C23_Interleaved ==
    /\ pc = "done" /\ previous = <<>> /\ result # Null
    /\ other.pc = "done" /\ other.overlapped /\ other.result # Null
    /\ Gt(result[1].confidence, other.result[1].confidence)


\* The warnings of a second run of the analyze routine of engine k on the
\* snapshot that its first run, a, left.
AnalyzedAgain(k, a) == analyze(engines[k], doc, a.ctx, k)

\* Whether two runs of an analyze routine ended alike: the same warnings, or
\* an exception both times.
SameWarnings(a, b) ==
    /\ a.threw = b.threw
    /\ ~a.threw => a.warnings = b.warnings

\* C24: every profile of the registry has a name of its own, at least one
\* signature and at least one recommendation, and its analyze routine run
\* twice on the snapshot gives the same warnings both times: every routine
\* on the snapshot before and after a call, and the routine that a call is
\* about to run on the snapshot as the call finds it.
C24_ProfilesWellFormed ==
    \A k \in 1..Len(engines) :
        /\ \A j \in 1..Len(engines) : engines[j].name = engines[k].name => j = k
        /\ Len(engines[k].signatures) >= 1
        /\ Len(engines[k].recommendations) >= 1
        /\ (pc \in {"idle", "done"} \/ (pc = "analyze" /\ k = i)) =>
               SameWarnings(analyze(engines[k], doc, ctx, k),
                            AnalyzedAgain(k, analyze(engines[k], doc, ctx, k)))

\* A second call ran the analyze routine of the winner again, on the snapshot
\* with the contexts the first call left, and it gave the same warnings.
C24_AnalyzedTwice ==
    /\ pc = "done" /\ result # Null
    /\ result[1].warnings # <<>>
    /\ previous # <<>> /\ previous[1].outcome = "done"
    /\ previous[1].result # Null
    /\ previous[1].result[1].warnings = result[1].warnings
    /\ ctx # InitialContexts(doc)


\* The first canvas of the document holds a WebGL context.
CanvasHoldsWebGL ==
    /\ ~NoCanvas
    /\ ctx[QuerySelector(doc, CanvasSel)] \in {"webgl", "webgl2"}

\* The first canvas of the document holds a WebGL context or, holding none,
\* can hand one out.
CanvasOffersWebGL ==
    /\ ~NoCanvas
    /\ \/ ctx[QuerySelector(doc, CanvasSel)] \in {"webgl", "webgl2"}
       \/ /\ ctx[QuerySelector(doc, CanvasSel)] = "none"
          /\ Supported("webgl") \/ Supported("webgl2")

\* C25: a webgl signature matched exactly when the document has a canvas and
\* the canvas gave a WebGL context, and a webgl signature evaluates the same
\* with or without patterns and shaders.
C25_WebGLMatchIsContext ==
    /\ \A n \in 1..Len(trace) :
           (trace[n].ev = "sig" /\ trace[n].by = "webgl") =>
               (trace[n].ok <=> CanvasHoldsWebGL)
    /\ \A p \in { Absent, Given(<< <<"unity-canvas">> >>) },
          s \in { Absent, Given(<< <<"pico8_vert">> >>) } :
           matchWebGL(Sig("webgl", p, Absent, s), doc, ctx, 1).ok
               <=> CanvasOffersWebGL

\* In one call a webgl signature with patterns matched on a canvas that has
\* none of them in its id, and a webgl signature with shaders matched too.
C25_PatternsAndShadersIgnored ==
    /\ pc = "done"
    /\ \E n \in 1..Len(trace) :
           /\ trace[n].ev = "sig" /\ trace[n].by = "webgl" /\ trace[n].ok
           /\ IsGiven(SignatureOf(trace[n]).patterns)
           /\ ~CanvasMatches(SignatureOf(trace[n]),
                             doc[QuerySelector(doc, CanvasSel)]).ok
    /\ \E n \in 1..Len(trace) :
           /\ trace[n].ev = "sig" /\ trace[n].by = "webgl" /\ trace[n].ok
           /\ IsGiven(SignatureOf(trace[n]).shaders)


\* The number of entries of the trace of kind ev for engine k.
Invocations(ev, k) ==
    Cardinality({ n \in 1..Len(trace) : trace[n].ev = ev /\ trace[n].eng = k })

\* C26: in a call that has ended, analyze and detectFeatures were each
\* invoked once for every profile whose score was positive and above every
\* earlier score, and for no other profile, in registration order.
C26_OncePerRunningMaximum ==
    pc \in {"done", "rejected"} =>
        /\ \A k \in 1..Len(engines) :
               /\ Invocations("analyze", k) = IF k \in RunningMaxima THEN 1 ELSE 0
               /\ Invocations("features", k) = IF k \in RunningMaxima THEN 1 ELSE 0
        /\ \A n, m \in 1..Len(trace) :
               (n < m /\ trace[n].ev \in {"analyze", "features"}
                      /\ trace[m].ev \in {"analyze", "features"})
                   => trace[n].eng <= trace[m].eng


\* The registry without its profiles that have no signature.
RECURSIVE Signed(_)
Signed(reg) ==
    IF reg = <<>> THEN <<>>
    ELSE (IF Len(Head(reg).signatures) = 0 THEN <<>> ELSE <<Head(reg)>>)
         \o Signed(Tail(reg))

\* C27: a profile without signatures scores 0/0, is never analysed and never
\* named by the result, no call rejects at it, and the first call on a
\* document ends as it does on the registry without such profiles.
C27_UnsignedProfileIgnored ==
    /\ \A k \in 1..Len(scores) :
           Len(engines[k].signatures) = 0 =>
               /\ IsNaN(scores[k])
               /\ k \notin AnalyzedEngines
    /\ pc = "rejected" => Len(engines[i].signatures) > 0
    /\ (pc = "done" /\ result # Null) =>
           \A k \in Returned : Len(engines[k].signatures) > 0
    /\ (pc \in {"done", "rejected"} /\ previous = <<>>) =>
           Outcome(pc, result)
               = Outcome(RunAlone(Signed(engines), Waiting(doc)).pc,
                         RunAlone(Signed(engines), Waiting(doc)).result)

\* A call returned a result after it had scored a profile without signatures
\* between two profiles that each improved on the best score and were analysed.
C27_UnsignedBetweenMaxima ==
    /\ pc = "done" /\ result # Null /\ previous = <<>>
    /\ \E k \in 1..Len(scores) :
           /\ Len(engines[k].signatures) = 0
           /\ \E j \in AnalyzedEngines : j < k
           /\ \E j \in AnalyzedEngines : j > k


\* The canvas that Unity's analyze routine looks up could hand out a
\* version-2 context when the detector was constructed.
UnityCanvasOffersVersion2 ==
    /\ QuerySelector(doc, IdSel(<<"unity-canvas">>)) # 0
    /\ IsCanvas(doc[QuerySelector(doc, IdSel(<<"unity-canvas">>))])
    /\ Supported("webgl2")
    /\ InitialContexts(doc)[QuerySelector(doc, IdSel(<<"unity-canvas">>))]
           \in {"none", "webgl2"}

\* C28: the first call on a document gives Unity's warning 'WebGL 2.0 not
\* available, falling back to WebGL 1.0' only when the canvas could not hand
\* out a version-2 context, whatever the webgl matcher requested before.
C28_WarningOnlyWithoutVersion2 ==
    (/\ pc = "done" /\ previous = <<>>
     /\ result # Null
     /\ result[1].engineName = "Unity"
     /\ \E w \in 1..Len(result[1].warnings) :
            result[1].warnings[w]
                = "WebGL 2.0 not available, falling back to WebGL 1.0")
        => ~UnityCanvasOffersVersion2


\* C29: a call on a document whose first canvas gives a WebGL context ends
\* with a result, of confidence at least 1/3, that names Unity unless a later
\* profile scored above 1/3.
C29_ContextGivesResult ==
    (pc \in {"done", "rejected"} /\ CanvasHoldsWebGL) =>
        /\ pc = "done"
        /\ result # Null
        /\ Ge(result[1].confidence, Num(1, 3))
        /\ (\A k \in 2..Len(scores) : ~Gt(scores[k], Num(1, 3)))
               => result[1].engineName = "Unity"


\* The ids that a createContext call stored and no later removeContext call
\* was made for.
Live ==
    { manager.log[n].id : n \in
        { n \in 1..Len(manager.log) :
            /\ manager.log[n].op = "create" /\ manager.log[n].ok
            /\ \A m \in (n + 1)..Len(manager.log) :
                   ~(manager.log[m].op = "remove"
                     /\ manager.log[m].id = manager.log[n].id) } }

\* The ids under which a Map holds a context.
Keys(contexts) == { contexts[k].id : k \in 1..Len(contexts) }

\* C30: listContexts gives, each once, the ids whose last successful
\* createContext no removeContext followed; a createContext that obtained no
\* context threw and left the Map as it was; removeContext returned true
\* exactly when the id was stored, and the id is not stored after it.
C30_ManagerTracksLiveIds ==
    /\ Keys(manager.contexts) = Live
    /\ Len(listContexts(manager)) = Cardinality(Live)
    /\ \A k \in 1..Len(listContexts(manager)) : listContexts(manager)[k] \in Live
    /\ \A n \in 1..Len(manager.log) :
           /\ (manager.log[n].op = "create" /\ manager.log[n].got = "null") =>
                  ~manager.log[n].ok
           /\ (manager.log[n].op = "create" /\ ~manager.log[n].ok) =>
                  manager.log[n].after = manager.log[n].before
           /\ manager.log[n].op = "remove" =>
                  /\ manager.log[n].ok
                         <=> manager.log[n].id \in Keys(manager.log[n].before)
                  /\ Keys(manager.log[n].after)
                         = Keys(manager.log[n].before) \ {manager.log[n].id}
    /\ (manager.ret # <<>> /\ manager.ret[1].op = "getContext") =>
           \A c \in 1..Len(manager.ret[1].value) :
               manager.ret[1].value[c].id \in Live

\* A createContext for a stored id failed and left it stored, a later
\* removeContext of the id returned true, and listContexts then gave no id.
C30_FailedCreateKeepsStored ==
    /\ \E n \in 1..Len(manager.log) :
           /\ manager.log[n].op = "create" /\ ~manager.log[n].ok
           /\ manager.log[n].id \in Keys(manager.log[n].after)
           /\ \E m \in (n + 1)..Len(manager.log) :
                  /\ manager.log[m].op = "remove" /\ manager.log[m].ok
                  /\ manager.log[m].id = manager.log[n].id
    /\ manager.ret # <<>> /\ manager.ret[1].op = "listContexts"
    /\ manager.ret[1].value = <<>>

=============================================================================
